---- MODULE Spec2Model ----
(***************************************************************************)
(* A model of the pumpdotfun-sdk transaction scripts: the chunking helper  *)
(* batchArray, the Jito bundle submitter (bundle / bull_dozer /            *)
(* onBundleResult), the retry helpers, the lookup-table creation flows and *)
(* the batch send paths.  Each component has its own specification over    *)
(* the same variables; the variables of the other components stay idle.    *)
(***************************************************************************)
EXTENDS Integers, Sequences, FiniteSets, TLC

VARIABLES
    \* batchArray(array, batchSize)
    array,          \* the input list
    batchSize,      \* the chunk size argument
    batches,        \* the returned list of chunks
    chunkPc,        \* "call" before the call, "returned" after it
    \* bundle(txs, keypair) and the bull_dozer / onBundleResult calls it makes
    txCount,        \* txs.length
    txNum,          \* Math.ceil(txs.length / 5)
    bi,             \* the sub-bundle being submitted (the loop's i + 1)
    successNum,     \* sub-bundles for which bull_dozer returned true
    bundlePc,       \* where bundle() stands: "loop", "build", "sent", "await", "done"
    bundleRet,      \* what bundle() returned: "true", "false" ("none" until it returns)
    sentIds,        \* bundle ids the relay has been sent (sub-bundle j has id j)
    first,          \* onBundleResult's counter `first`, per call
    isResolved,     \* onBundleResult's flag `isResolved`, per call
    settled,        \* the value the promise of the call was resolved with, or Pending
    resolvedBy,     \* which callback settled that promise: "accept", "timer" or "none"
    timerArmed,     \* the 30 s timer of the call is still to fire
    subscribed,     \* c.onBundleResult has registered the call's callbacks
    received,       \* results the call's callback handled before it was resolved
    missed,         \* results emitted between sendBundle and the subscription
    results,        \* what bull_dozer returned per sub-bundle: "true", "false" ("none" before)
    reports,        \* <<bundle id, outcome>> lines bull_dozer has reported
    nEvents,        \* results the relay stream has emitted so far
    relayBundles,   \* per sub-bundle, the transactions sent to the relay, in order
    tipCount,       \* accounts.length of the list getTipAccounts returns
    tipAccount,     \* 1-based position in that list of the last tip account chosen (0: none)
    \* the retry helpers and the lookup-table creation flows that use them
    rFlow,          \* "retryTransaction" (index.ts), "retryAsync" (bundled sell), "altLoop"
    maxAttempts,    \* the helper's `retries` argument (the loop's initial `retries`)
    attempt,        \* retryTransaction's `attempt`, retryAsync's `i + 1`
    retriesLeft,    \* the creation loop's `retries` countdown
    calls,          \* how many times the retried operation has been called
    sawOk,          \* a call of the retried operation succeeded
    sawFatal,       \* a call failed with an error the flow does not class recoverable
    fatalAt,        \* the call at which a non-recoverable error was first raised (0: none)
    sends,          \* the creation transactions sent, in order, each with its result
    rPc,            \* "loop", "send", "done"
    rOutcome,       \* "none", "value", "error" or "undefined": what the caller gets
    chainSlot,      \* the network's current slot
    slot,           \* the script's `slot` / `recentSlot` variable (0 before getSlot)
    ixSlot,         \* the recentSlot inside the createLookupTable instruction
    getSlotCalls,   \* successful connection.getSlot() calls so far
    tableCreated,   \* the creation transaction was accepted
    \* the lookup-table lifecycle: create, extend, confirm, fetch, compile against it
    tFlow,          \* "combined": create+extend in one transaction, confirmed, polled
                    \* "separate": create and extend sent one after the other, unconfirmed
    nAddr,          \* how many addresses the flow registers in the table
    tPc,            \* the flow's position
    chainTable,     \* the table on chain: "absent", "empty" or "extended"
    pending,        \* transactions sent and not yet processed by the network
    confirmedTx,    \* transactions whose confirmation the flow has awaited
    polls,          \* fetchLookupTable's loop counter i
    snapshot,       \* the table account the last lookup returned ("none": null)
    compiled,       \* one record per batch compiled against the table
    extendCalls,    \* address counts of the extendLookupTable instructions built
    batchesLeft,    \* batches (launchers) still to compile and send
    tOutcome,       \* "none", "ok" or "error"
    \* the packing paths: chunk, compile, sign, measure, send; run twice
    pPath,          \* which script's packing loop
    pOps,           \* the operations (instructions) to pack, in order
    libChecks,      \* whether the library refuses to serialize an oversize message
    chainHash,      \* the network's latest blockhash
    pass,           \* 1 or 2: the packing is run twice over the same operations
    pIdx,           \* 1-based index of the next chunk
    passHash,       \* the blockhash fetched once before the loop (part_000)
    built,          \* per pass, the messages compiled so far
    sentTxs,        \* the transactions handed to the network
    rejected,       \* <<pass, index>> of chunks skipped or raised as an error
    pPc,            \* "idle", "start", "loop", "end" or "done"
    hashFetches,    \* getLatestBlockhash calls made for batches in this pass
    signedWith,     \* per batch signed in this pass, the number of the fetch it carries
    \* jitoWithAxios(transactions, payer, checkBundleStatus)
    aTxs,           \* transactions.length
    aCheck,         \* the checkBundleStatus argument
    aPc,            \* "idle", "start", "confirm", "status" or "done"
    aPosted,        \* the transactions posted to the relay, in order (<<>>: nothing posted)
    aBundleId,      \* the relay's reply carried a bundle id
    aChain,         \* the posted bundle on chain: "pending", "landed" or "dropped"
    aConfirm,       \* what confirmTransaction of the tip returned: "none", "ok" or "err"
    aStatus,        \* what getBundleStatuses returned: "unasked", "null" or "landed"
    aRet,           \* the returned object ("none" until the function returns)
    \* the blocking waits: table propagation, signature and bundle-result waits
    wKind,          \* "propagation", "bundleResult", "onSignature" or "confirm"
    wRetries,       \* the `retries` argument of the wait (polls, or retryAsync attempts)
    wPolls,         \* propagation: the result of each poll made, in order
    wAttempt,       \* confirm: retryAsync's i
    wTimer,         \* the wait's own setTimeout is still to fire
    wPc,            \* "idle", "waiting" or "done"
    wOutcome,       \* "none", "value", "timeout" or "error"
    \* the signers of each batch (collection, bundled sell, launcher buys)
    sFlow,          \* "collect" (part_003), "sell" (part_005) or "buy" (index.ts)
    sWallets,       \* the wallets loaded, in order
    sFunded,        \* the wallets whose balance passes the flow's check
    sIdx,           \* index of the batch the loop is at
    sSigned,        \* per signed transaction: keys that signed, keys the message requires
    sPc,            \* "idle", "load", "rejected", "loop", "sending", "simulate", "done", "error"
    sFile,          \* the wallets file the flow reads: its JSON shape and entry count
    sInFlight,      \* batches whose sendTransaction has been called and has not returned
    sSends,         \* the sends that returned, in order: batch and "ok" or "error"
    sSims,          \* the diagnostic simulations run, in order: batch and outcome
    sPrep,          \* part_003: index of the wallet the preparation loop is at
    sInstructions,  \* part_003 transferInstructions: source wallet and lamports of each
    sSigners,       \* part_003 signers
    sQuery,         \* part_003: the last getBalance: wallet, "ok" or "throws", balance
    \* the wallet server (part_002): key files, backlogs and config.json
    keyFiles,       \* per file of .keys: its JSON shape and the public keys it holds
    backlogs,       \* the files moved to .keys/backlogs: name, request and contents
    config,         \* config.json: whether it exists, launcherWalletSolAmounts
    lastUpdate,     \* the last updateConfig: its outcome and the config it started from
    requests        \* /generate-wallets requests served

chunkVars == <<array, batchSize, batches, chunkPc>>

bundleVars == <<tipCount, tipAccount, relayBundles, txCount, txNum, bi, successNum, bundlePc, bundleRet, sentIds, first,
                isResolved, settled, resolvedBy, timerArmed, subscribed, received,
                missed, results, reports, nEvents>>

retryVars == <<rFlow, maxAttempts, attempt, retriesLeft, calls, sawOk, sawFatal, fatalAt, sends,
               rPc, rOutcome, chainSlot, slot, ixSlot, getSlotCalls, tableCreated>>

tableVars == <<tFlow, nAddr, tPc, chainTable, pending, confirmedTx, polls, snapshot,
               compiled, extendCalls, batchesLeft, tOutcome>>

packVars == <<pPath, pOps, libChecks, chainHash, pass, pIdx, passHash, built, sentTxs,
              rejected, pPc, hashFetches, signedWith>>

axiosVars == <<aTxs, aCheck, aPc, aPosted, aBundleId, aChain, aConfirm, aStatus, aRet>>

waitVars == <<wKind, wRetries, wPolls, wAttempt, wTimer, wPc, wOutcome>>

signVars == <<sFlow, sWallets, sFunded, sIdx, sSigned, sPc, sFile, sInFlight, sSends, sSims,
              sPrep, sInstructions, sSigners, sQuery>>

serverVars == <<keyFiles, backlogs, config, lastUpdate, requests>>

vars == <<chunkVars, bundleVars, retryVars, tableVars, packVars, axiosVars, waitVars, signVars, serverVars>>

(***************************************************************************)
(* Bounds of the model.                                                    *)
(***************************************************************************)
MaxOps == 12            \* longest input list given to batchArray
MaxBatchSize == 6       \* largest batchSize argument
MaxTxs == 7             \* most transactions given to bundle()
MaxEvents == 3          \* most results the relay stream emits in one run
MaxRetries == 3         \* largest `retries` argument given to a retry helper
MaxSlot == 3            \* the network's slot advances up to this value
MaxBatches == 2         \* most batches a table flow compiles after the table is set up
MaxPackOps == 7         \* most transfers handed to a packing loop
MaxHash == 2            \* the network's blockhash advances up to this value
MaxAxiosTxs == 6        \* most transactions given to jitoWithAxios
MaxWaitRetries == 5     \* largest `retries` argument given to a propagation wait
MaxWallets == 7         \* most wallets loaded by a signing flow
MaxTipAccounts == 5     \* longest list getTipAccounts returns
RandomSteps == 8        \* values of Math.random() told apart
MaxRequests == 2        \* /generate-wallets requests served
MaxNewWallets == 2      \* most wallets one request asks for
InitKeys == 2           \* most wallets launchers.json holds when the server starts

Min(a, b) == IF a < b THEN a ELSE b

(***************************************************************************)
(* batchArray                                                              *)
(***************************************************************************)

\* A slice that takes one element too many (mutant of Slice).
SliceInclusive(arr, start, end) ==
    LET lo == Min(start, Len(arr))
        hi == Min(end + 1, Len(arr))
    IN  [j \in 1..(IF hi > lo THEN hi - lo ELSE 0) |-> arr[lo + j]]

\* Array.prototype.slice(start, end) for 0 <= start <= end: the elements at the
\* 0-based positions start .. end-1, cut at the end of the array.
Slice(arr, start, end) ==
    LET lo == Min(start, Len(arr))
        hi == Min(end, Len(arr))
    IN  [j \in 1..(IF hi > lo THEN hi - lo ELSE 0) |-> arr[lo + j]]

RECURSIVE batchArrayLoop(_, _, _, _)
\* for (let i = 0; i < array.length; i += batchSize) batches.push(array.slice(i, i + batchSize))
batchArrayLoop(arr, size, i, acc) ==
    IF i < Len(arr)
    THEN batchArrayLoop(arr, size, i + size, Append(acc, Slice(arr, i, i + size)))
    ELSE acc

RECURSIVE batchArrayOverlapLoop(_, _, _, _)
batchArrayOverlapLoop(arr, size, i, acc) ==
    IF i < Len(arr)
    THEN batchArrayOverlapLoop(arr, size, i + size + 1, Append(acc, Slice(arr, i, i + size)))
    ELSE acc

\* A chunking loop that steps one element too far (mutant of batchArray).
batchArraySkipping(arr, size) == batchArrayOverlapLoop(arr, size, 0, <<>>)

batchArray(arr, size) == batchArrayLoop(arr, size, 0, <<>>)

ChunkIdle ==
    /\ array = <<>>
    /\ batchSize = 1
    /\ batches = <<>>
    /\ chunkPc = "idle"

\* The operations are distinct objects: operation i of the input is named i.
ChunkInit ==
    /\ \E n \in 0..MaxOps : array = [i \in 1..n |-> i]
    /\ batchSize \in 1..MaxBatchSize
    /\ batches = <<>>
    /\ chunkPc = "call"

CallBatchArray ==
    /\ chunkPc = "call"
    /\ batches' = batchArray(array, batchSize)
    /\ chunkPc' = "returned"
    /\ UNCHANGED <<array, batchSize>>


(***************************************************************************)
(* bundle / bull_dozer / build_bundle / onBundleResult                     *)
(***************************************************************************)
BUNDLE_SIZE == 5        \* transactions per sub-bundle in bundle()
Pending == -1           \* a promise that has not been resolved

CeilDiv(n, k) == (n + k - 1) \div k

MaxSub == CeilDiv(MaxTxs, BUNDLE_SIZE)
Subs == 1..MaxSub
ResultKinds == {"accepted", "rejected", "other"}

\* The id of a bundle the same searcher submitted before this bundle() call: its
\* results arrive on the same stream.
ForeignId == 0

bundleTransactionLimit == 5     \* bull_dozer: const bundleTransactionLimit = 5
BundleError == <<-1>>          \* the Error a Bundle method returns
TipTx == 0                      \* the tip transaction; txs[k-1] is named k

\* bundle(): newTxs of sub-bundle i holds txs[5(i-1)] .. txs[5i - 1] where they
\* exist; a transaction is named by its 1-based position in txs.
NewTxs(i, n) ==
    [k \in 1..(Min(i * BUNDLE_SIZE, n) - (i - 1) * BUNDLE_SIZE) |-> (i - 1) * BUNDLE_SIZE + k]

\* Bundle.addTransactions: appends, or returns an Error (which build_bundle does
\* not look at) and leaves the bundle as it was when the limit would be exceeded.
AddTransactions(bund, txs, limit) ==
    IF Len(bund) + Len(txs) > limit THEN bund ELSE bund \o txs

\* Bundle.addTipTx: appends the tip transaction, or returns an Error when the
\* limit would be exceeded.
AddTipTx(bund, limit) ==
    IF Len(bund) + 1 > limit THEN BundleError ELSE Append(bund, TipTx)

\* A promise whose later resolve calls add to its value.
ResolveAdds(p, v) == IF p = Pending THEN v ELSE p + v

\* build_bundle: accounts[Math.min(Math.floor(Math.random() * accounts.length), 3)],
\* as a 1-based position; Math.random() is r / RandomSteps, r in 0..RandomSteps - 1.
TipIndex(r, n) == Min((r * n) \div RandomSteps, 3) + 1

\* The positions of the list build_bundle can choose.
TipChoices(n) == {TipIndex(r, n) : r \in 0..(RandomSteps - 1)}

\* resolve(v) of a promise: only the first call settles it.
Resolve(p, v) == IF p = Pending THEN v ELSE p

\* A report that lacks the else branch (mutant of BullDozerReports).
BullDozerReportsNoElse(bundleResult) ==
    IF bundleResult > 0 THEN {"Accepted", "Rejected"} ELSE {"Rejected"}

\* bull_dozer: "Bundle accepted by Jito" when bundleResult > 0, else "Bundle rejected".
BullDozerReports(bundleResult) ==
    IF bundleResult > 0 THEN {"Accepted"} ELSE {"Rejected"}

BundleIdle ==
    /\ txCount = 0 /\ txNum = 0 /\ bi = 1 /\ successNum = 0
    /\ bundlePc = "idle" /\ bundleRet = "none"
    /\ sentIds = {}
    /\ first = [j \in Subs |-> 0]
    /\ isResolved = [j \in Subs |-> FALSE]
    /\ settled = [j \in Subs |-> Pending]
    /\ resolvedBy = [j \in Subs |-> "none"]
    /\ timerArmed = [j \in Subs |-> FALSE]
    /\ subscribed = [j \in Subs |-> FALSE]
    /\ received = [j \in Subs |-> {}]
    /\ missed = {}
    /\ results = [j \in Subs |-> "none"]
    /\ reports = {}
    /\ nEvents = 0
    /\ relayBundles = [j \in Subs |-> <<>>]
    /\ tipCount = 0 /\ tipAccount = 0

\* bundle(txs, keypair) is called with 0..MaxTxs transactions.
BundleInit ==
    /\ txCount \in 0..MaxTxs
    /\ txNum = CeilDiv(txCount, BUNDLE_SIZE)
    /\ bi = 1 /\ successNum = 0
    /\ bundlePc = "loop" /\ bundleRet = "none"
    /\ sentIds = {}
    /\ first = [j \in Subs |-> 0]
    /\ isResolved = [j \in Subs |-> FALSE]
    /\ settled = [j \in Subs |-> Pending]
    /\ resolvedBy = [j \in Subs |-> "none"]
    /\ timerArmed = [j \in Subs |-> FALSE]
    /\ subscribed = [j \in Subs |-> FALSE]
    /\ received = [j \in Subs |-> {}]
    /\ missed = {}
    /\ results = [j \in Subs |-> "none"]
    /\ reports = {}
    /\ nEvents = 0
    /\ relayBundles = [j \in Subs |-> <<>>]
    /\ tipCount \in 0..MaxTipAccounts /\ tipAccount = 0

closureVars == <<first, isResolved, settled, resolvedBy, timerArmed, subscribed, received>>

\* bundle: the loop body starts, bull_dozer(newTxs, keypair) is called.
BullDozerStart ==
    /\ bundlePc = "loop" /\ bi <= txNum
    /\ bundlePc' = "build"
    /\ UNCHANGED <<tipCount, tipAccount, relayBundles, txCount, txNum, bi, successNum, bundleRet, sentIds, closureVars,
                   missed, results, reports, nEvents>>

\* build_bundle: tip accounts, blockhash, addTransactions, addTipTx and
\* search.sendBundle all succeed; addTipTx returns an Error above the limit.
BuildBundleSent ==
    /\ bundlePc = "build"
    /\ LET bund == AddTransactions(<<>>, NewTxs(bi, txCount), bundleTransactionLimit)
           maybeBundle == AddTipTx(bund, bundleTransactionLimit)
       IN  /\ maybeBundle # BundleError
           /\ relayBundles' = [relayBundles EXCEPT ![bi] = maybeBundle]
    /\ tipCount > 0
    /\ \E r \in 0..(RandomSteps - 1) : tipAccount' = TipIndex(r, tipCount)
    /\ sentIds' = sentIds \cup {bi}
    /\ bundlePc' = "sent"
    /\ UNCHANGED <<tipCount, txCount,  txNum, bi, successNum, bundleRet, closureVars,
                   missed, results, reports, nEvents>>

\* build_bundle: addTipTx returns an Error, which is logged and thrown:
\* bull_dozer catches it and returns false.
BuildBundleTipError ==
    /\ bundlePc = "build"
    /\ AddTipTx(AddTransactions(<<>>, NewTxs(bi, txCount), bundleTransactionLimit),
                bundleTransactionLimit) = BundleError
    /\ reports' = reports \cup {<<bi, "TipError">>}
    /\ results' = [results EXCEPT ![bi] = "false"]
    /\ bi' = bi + 1
    /\ bundlePc' = "loop"
    /\ UNCHANGED <<tipCount, tipAccount, relayBundles, txCount, txNum, successNum, bundleRet, sentIds, closureVars,
                   missed, nEvents>>

\* build_bundle throws on a network error: bull_dozer catches, returns false.
BuildBundleThrows ==
    /\ bundlePc = "build"
    /\ results' = [results EXCEPT ![bi] = "false"]
    /\ bi' = bi + 1
    /\ bundlePc' = "loop"
    /\ UNCHANGED <<tipCount, tipAccount, relayBundles, txCount, txNum, successNum, bundleRet, sentIds, closureVars,
                   missed, reports, nEvents>>

\* The relay emits a result for the bundle just sent before onBundleResult subscribes.
StreamBeforeSubscribe(kind) ==
    /\ bundlePc = "sent"
    /\ nEvents < MaxEvents
    /\ missed' = missed \cup {<<bi, kind>>}
    /\ nEvents' = nEvents + 1
    /\ UNCHANGED <<tipCount, tipAccount, relayBundles, txCount, txNum, bi, successNum, bundlePc, bundleRet, sentIds,
                   closureVars, results, reports>>

\* onBundleResult(search): the timer is set and the stream callbacks are registered.
OnBundleResultCalled ==
    /\ bundlePc = "sent"
    /\ first' = [first EXCEPT ![bi] = 0]
    /\ isResolved' = [isResolved EXCEPT ![bi] = FALSE]
    /\ timerArmed' = [timerArmed EXCEPT ![bi] = TRUE]
    /\ subscribed' = [subscribed EXCEPT ![bi] = TRUE]
    /\ bundlePc' = "await"
    /\ UNCHANGED <<tipCount, tipAccount, relayBundles, txCount, txNum, bi, successNum, bundleRet, sentIds, settled,
                   resolvedBy, received, missed, results, reports, nEvents>>

\* The result callback of call j runs for a result of bundle `id`.
ResultCallback(j, id, kind) ==
    /\ subscribed[j]
    /\ id \in sentIds \cup {ForeignId}
    /\ nEvents < MaxEvents
    /\ nEvents' = nEvents + 1
    /\ IF isResolved[j]
       THEN UNCHANGED closureVars
       ELSE /\ received' = [received EXCEPT ![j] = @ \cup {<<id, kind>>}]
            /\ IF kind = "accepted"
               THEN /\ first' = [first EXCEPT ![j] = @ + 1]
                    /\ isResolved' = [isResolved EXCEPT ![j] = TRUE]
                    /\ settled' = [settled EXCEPT ![j] = Resolve(@, first[j] + 1)]
                    /\ resolvedBy' = [resolvedBy EXCEPT
                                        ![j] = IF settled[j] = Pending THEN "accept" ELSE @]
               ELSE UNCHANGED <<first, isResolved, settled, resolvedBy>>
            /\ UNCHANGED <<timerArmed, subscribed>>
    /\ UNCHANGED <<tipCount, tipAccount, relayBundles, txCount, txNum, bi, successNum, bundlePc, bundleRet, sentIds,
                   missed, results, reports>>

\* The 30 s timer of call j fires: resolve(first); isResolved = true.
TimerFires(j) ==
    /\ timerArmed[j]
    /\ timerArmed' = [timerArmed EXCEPT ![j] = FALSE]
    /\ settled' = [settled EXCEPT ![j] = Resolve(@, first[j])]
    /\ resolvedBy' = [resolvedBy EXCEPT ![j] = IF settled[j] = Pending THEN "timer" ELSE @]
    /\ isResolved' = [isResolved EXCEPT ![j] = TRUE]
    /\ UNCHANGED <<tipCount, tipAccount, relayBundles, txCount, txNum, bi, successNum, bundlePc, bundleRet, sentIds,
                   first, subscribed, received, missed, results, reports, nEvents>>

\* A variant that is content with one accepted sub-bundle.
AggregateSuccessAny(succ, num) == succ > 0 \/ num = 0

\* bundle: return successNum === txNum.
AggregateSuccess(succ, num) == succ = num

\* bull_dozer resumes with bundleResult, reports it and returns; bundle() counts it.
BullDozerReturns ==
    /\ bundlePc = "await"
    /\ settled[bi] # Pending
    /\ LET bundleResult == settled[bi]
       IN  /\ results' = [results EXCEPT ![bi] = IF bundleResult > 0 THEN "true" ELSE "false"]
           /\ reports' = reports \cup {<<bi, o>> : o \in BullDozerReports(bundleResult)}
           /\ successNum' = IF bundleResult > 0 THEN successNum + 1 ELSE successNum
    /\ bi' = bi + 1
    /\ bundlePc' = "loop"
    /\ UNCHANGED <<tipCount, tipAccount, relayBundles, txCount, txNum, bundleRet, sentIds, closureVars, missed, nEvents>>

\* bundle: the loop is over, return successNum === txNum.
BundleReturns ==
    /\ bundlePc = "loop" /\ bi > txNum
    /\ bundleRet' = IF AggregateSuccess(successNum, txNum) THEN "true" ELSE "false"
    /\ bundlePc' = "done"
    /\ UNCHANGED <<tipCount, tipAccount, relayBundles, txCount, txNum, bi, successNum, sentIds, closureVars,
                   missed, results, reports, nEvents>>

(***************************************************************************)
(* retryTransaction, retryAsync, the creation retry loop, and the          *)
(* lookup-table creation they wrap                                         *)
(***************************************************************************)
ALT_RETRIES == 5        \* `let retries = 5` of the creation loop
BUY_RETRIES == 3        \* `retry < 3` of the launcher buy loop

BuyResults == {"ok", "insufficient", "stale", "other"}

SendResults == {"ok", "stale", "other"}     \* "stale": '... is not a recent slot'

\* A retry test that gives up one attempt early (mutant of RetryTransactionContinues).
RetryTransactionContinuesEarlyStop(att, retries, err) ==
    err = "stale" /\ att < retries - 1

\* retryTransaction: retry when the message includes "not a recent slot" and
\* attempt < retries; otherwise rethrow.
RetryTransactionContinues(att, retries, err) ==
    err = "stale" /\ att < retries

\* retryAsync: `if (i === retries - 1) throw`, with i = att - 1.
RetryAsyncThrows(att, retries) == att - 1 = retries - 1

\* The number of the call at which the retried operation first failed with an
\* error that is not recoverable (0: it has not).
FirstFatal(res) == IF res = "other" /\ fatalAt = 0 THEN calls + 1 ELSE fatalAt

Sent(res) == [txSlot |-> ixSlot, slotVar |-> slot, fetched |-> getSlotCalls, result |-> res]

RetryIdle ==
    /\ rFlow = "none" /\ maxAttempts = 0 /\ attempt = 1 /\ retriesLeft = 0
    /\ calls = 0 /\ sawOk = FALSE /\ sawFatal = FALSE /\ fatalAt = 0 /\ sends = <<>>
    /\ rPc = "idle" /\ rOutcome = "none"
    /\ chainSlot = 1 /\ slot = 0 /\ ixSlot = 0 /\ getSlotCalls = 0
    /\ tableCreated = FALSE

\* index.ts: slot = getSlot(), the creation instruction and altTransaction are built
\* once, then retryTransaction(() => sendTransaction(altTransaction), retries).
\* OneToMany-prejito.ts: the same, then the while (retries > 0 && !transactionSent) loop.
\* Bundled sell: retryAsync(() => getSlot() and build the instruction, retries, delay).
RetryInit ==
    /\ rFlow \in {"retryTransaction", "retryAsync", "altLoop", "buyLoop"}
    /\ maxAttempts \in (IF rFlow = "altLoop" THEN {ALT_RETRIES}
                        ELSE IF rFlow = "buyLoop" THEN {BUY_RETRIES} ELSE 0..MaxRetries)
    /\ attempt = 1
    /\ retriesLeft = (IF rFlow = "altLoop" THEN ALT_RETRIES ELSE 0)
    /\ calls = 0 /\ sawOk = FALSE /\ sawFatal = FALSE /\ fatalAt = 0 /\ sends = <<>>
    /\ rPc = "loop" /\ rOutcome = "none"
    /\ chainSlot = 1
    /\ slot = (IF rFlow \in {"retryAsync", "buyLoop"} THEN 0 ELSE 1)
    /\ ixSlot = (IF rFlow \in {"retryAsync", "buyLoop"} THEN 0 ELSE 1)
    /\ getSlotCalls = (IF rFlow \in {"retryAsync", "buyLoop"} THEN 0 ELSE 1)
    /\ tableCreated = FALSE

\* The network moves on to the next slot.
ChainAdvance ==
    /\ rPc \in {"loop", "send"}
    /\ chainSlot < MaxSlot
    /\ chainSlot' = chainSlot + 1
    /\ UNCHANGED <<rFlow, maxAttempts, attempt, retriesLeft, calls, sawOk, sawFatal,
                   fatalAt, sends, rPc, rOutcome, slot, ixSlot, getSlotCalls, tableCreated>>

\* retryTransaction: one pass of the for loop, transactionFn() sends altTransaction.
RetryTransactionAttempt(res) ==
    /\ rFlow = "retryTransaction" /\ rPc = "loop"
    /\ attempt <= maxAttempts
    /\ calls' = calls + 1
    /\ sends' = Append(sends, Sent(res))
    /\ IF res = "ok"
       THEN /\ rOutcome' = "value" /\ rPc' = "done" /\ tableCreated' = TRUE
            /\ sawOk' = TRUE
            /\ UNCHANGED <<attempt, sawFatal, fatalAt>>
       ELSE /\ sawFatal' = (sawFatal \/ res # "stale")
            /\ fatalAt' = FirstFatal(res)
            /\ UNCHANGED <<sawOk, tableCreated>>
            /\ IF RetryTransactionContinues(attempt, maxAttempts, res)
               THEN attempt' = attempt + 1 /\ UNCHANGED <<rOutcome, rPc>>
               ELSE rOutcome' = "error" /\ rPc' = "done" /\ UNCHANGED attempt
    /\ UNCHANGED <<rFlow, maxAttempts, retriesLeft, chainSlot, slot, ixSlot, getSlotCalls>>

\* A do-while variant of the loop: the body runs once before the bound is tested,
\* so transactionFn is called even when retries is 0.
RetryTransactionExhaustedCallsOnce ==
    /\ rFlow = "retryTransaction" /\ rPc = "loop"
    /\ attempt > maxAttempts
    /\ calls' = calls + 1
    /\ sends' = Append(sends, Sent("other"))
    /\ rOutcome' = "error" /\ rPc' = "done"
    /\ UNCHANGED <<rFlow, maxAttempts, attempt, retriesLeft, sawOk, sawFatal,
                   fatalAt, chainSlot, slot, ixSlot, getSlotCalls, tableCreated>>

\* retryTransaction: the loop ends without a call, "Transaction failed after all retries."
RetryTransactionExhausted ==
    /\ rFlow = "retryTransaction" /\ rPc = "loop"
    /\ attempt > maxAttempts
    /\ rOutcome' = "error" /\ rPc' = "done"
    /\ UNCHANGED <<rFlow, maxAttempts, attempt, retriesLeft, calls, sawOk, sawFatal,
                   fatalAt, sends, chainSlot, slot, ixSlot, getSlotCalls, tableCreated>>

\* retryAsync: one pass of the for loop; fn() is getSlot() and createLookupTable.
\* Every error is retried until the last pass, which wraps and throws it.
RetryAsyncAttempt(res) ==
    /\ rFlow = "retryAsync" /\ rPc = "loop"
    /\ attempt - 1 < maxAttempts
    /\ calls' = calls + 1
    /\ IF res = "ok"
       THEN /\ slot' = chainSlot /\ ixSlot' = chainSlot
            /\ getSlotCalls' = getSlotCalls + 1
            /\ sawOk' = TRUE
            /\ rPc' = "send"
            /\ UNCHANGED <<attempt, rOutcome, fatalAt>>
       ELSE /\ UNCHANGED <<slot, ixSlot, getSlotCalls, sawOk>>
            /\ fatalAt' = FirstFatal(res)
            /\ IF RetryAsyncThrows(attempt, maxAttempts)
               THEN rOutcome' = "error" /\ rPc' = "done" /\ UNCHANGED attempt
               ELSE attempt' = attempt + 1 /\ UNCHANGED <<rOutcome, rPc>>
    /\ UNCHANGED <<rFlow, maxAttempts, retriesLeft, sawFatal, sends, chainSlot, tableCreated>>

\* retryAsync: the loop ends without a call and the function returns undefined.
RetryAsyncFallsThrough ==
    /\ rFlow = "retryAsync" /\ rPc = "loop"
    /\ ~(attempt - 1 < maxAttempts)
    /\ rOutcome' = "undefined" /\ rPc' = "done"
    /\ UNCHANGED <<rFlow, maxAttempts, attempt, retriesLeft, calls, sawOk, sawFatal,
                   fatalAt, sends, chainSlot, slot, ixSlot, getSlotCalls, tableCreated>>

\* Bundled sell: the creation transaction is sent once, outside any retry; an
\* error is logged and main returns.
CreateSendOnce(res) ==
    /\ rFlow = "retryAsync" /\ rPc = "send"
    /\ sends' = Append(sends, Sent(res))
    /\ rPc' = "done"
    /\ rOutcome' = (IF res = "ok" THEN "value" ELSE "error")
    /\ tableCreated' = (res = "ok")
    /\ UNCHANGED <<rFlow, maxAttempts, attempt, retriesLeft, calls, sawOk, sawFatal,
                   fatalAt, chainSlot, slot, ixSlot, getSlotCalls>>

\* OneToMany-prejito.ts: one pass of the while loop. The message is rebuilt from
\* the createLookupInstruction made before the loop; on 'not a recent slot' the
\* variable `slot` is refetched, any other error is rethrown.
AltLoopAttempt(res) ==
    /\ rFlow = "altLoop" /\ rPc = "loop"
    /\ retriesLeft > 0
    /\ calls' = calls + 1
    /\ sends' = Append(sends, Sent(res))
    /\ IF res = "ok"
       THEN /\ tableCreated' = TRUE /\ sawOk' = TRUE
            /\ rOutcome' = "value" /\ rPc' = "done"
            /\ UNCHANGED <<retriesLeft, slot, getSlotCalls, sawFatal, fatalAt>>
       ELSE /\ retriesLeft' = retriesLeft - 1
            /\ UNCHANGED <<tableCreated, sawOk>>
            /\ IF res = "stale"
               THEN /\ slot' = chainSlot
                    /\ getSlotCalls' = getSlotCalls + 1
                    /\ UNCHANGED <<rOutcome, rPc, sawFatal, fatalAt>>
               ELSE /\ sawFatal' = TRUE
                    /\ fatalAt' = FirstFatal(res)
                    /\ rOutcome' = "error" /\ rPc' = "done"
                    /\ UNCHANGED <<slot, getSlotCalls>>
    /\ UNCHANGED <<rFlow, maxAttempts, attempt, chainSlot, ixSlot>>

\* OneToMany-prejito.ts: the loop ends with transactionSent false, the flow throws.
AltLoopExhausted ==
    /\ rFlow = "altLoop" /\ rPc = "loop"
    /\ retriesLeft = 0
    /\ rOutcome' = "error" /\ rPc' = "done"
    /\ UNCHANGED <<rFlow, maxAttempts, attempt, retriesLeft, calls, sawOk, sawFatal,
                   fatalAt, sends, chainSlot, slot, ixSlot, getSlotCalls, tableCreated>>

\* The launcher buy loop: one pass. A balance below the amount breaks out of
\* the loop; a successful buy breaks out with success; a buy that reports
\* failure or throws (the catch only logs) goes to the next pass, whatever
\* the error.
BuyLoopAttempt(res) ==
    /\ rFlow = "buyLoop" /\ rPc = "loop"
    /\ attempt - 1 < maxAttempts
    /\ calls' = calls + 1
    /\ CASE res = "ok" ->
              /\ sawOk' = TRUE /\ rOutcome' = "value" /\ rPc' = "done"
              /\ UNCHANGED <<attempt, sawFatal, fatalAt>>
         [] res = "insufficient" ->
              /\ sawFatal' = TRUE /\ rOutcome' = "error" /\ rPc' = "done"
              /\ UNCHANGED <<attempt, sawOk, fatalAt>>
         [] OTHER ->
              /\ attempt' = attempt + 1
              /\ fatalAt' = FirstFatal(res)
              /\ UNCHANGED <<sawOk, sawFatal, rOutcome, rPc>>
    /\ UNCHANGED <<rFlow, maxAttempts, retriesLeft, sends, chainSlot, slot, ixSlot,
                   getSlotCalls, tableCreated>>

\* The launcher buy loop is over without success: the failure is logged.
BuyLoopExhausted ==
    /\ rFlow = "buyLoop" /\ rPc = "loop"
    /\ ~(attempt - 1 < maxAttempts)
    /\ rOutcome' = "error" /\ rPc' = "done"
    /\ UNCHANGED <<rFlow, maxAttempts, attempt, retriesLeft, calls, sawOk, sawFatal,
                   fatalAt, sends, chainSlot, slot, ixSlot, getSlotCalls, tableCreated>>

(***************************************************************************)
(* The lookup-table flows: create, extend, confirm, fetch, compile         *)
(***************************************************************************)
MAX_TRANSACTION_SIZE == 1232    \* the size ceiling checked before a send
FETCH_RETRIES == 10             \* fetchLookupTable(connection, address, 10, 500)
ADDRESS_BYTES == 32             \* an address in an instruction takes 32 bytes
ExtendCapacity == 256           \* the per-call extension capacity the design names

AddressCounts == {2, 20, 44, 256, 300}

\* The bytes the addresses alone take in an extension transaction: a lower bound
\* of its serialized size.
ExtendTxBytes(n) == ADDRESS_BYTES * n

\* The network takes no transaction above the packet size.
FitsPacket(n) == ExtendTxBytes(n) <= MAX_TRANSACTION_SIZE

TableIdle ==
    /\ tFlow = "none" /\ nAddr = 0 /\ tPc = "idle"
    /\ chainTable = "absent" /\ pending = {} /\ confirmedTx = {}
    /\ polls = 0 /\ snapshot = "none" /\ compiled = {} /\ extendCalls = <<>>
    /\ batchesLeft = 0 /\ tOutcome = "none"

TableInit ==
    /\ tFlow \in {"combined", "separate"}
    /\ nAddr \in AddressCounts
    /\ tPc = "build"
    /\ chainTable = "absent" /\ pending = {} /\ confirmedTx = {}
    /\ polls = 0 /\ snapshot = "none" /\ compiled = {} /\ extendCalls = <<>>
    /\ batchesLeft \in 1..MaxBatches
    /\ tOutcome = "none"

\* The network processes a pending transaction. An extension lands only on an
\* existing table; create+extend in one transaction land together or not at all.
NetworkLands(tx) ==
    /\ tx \in pending
    /\ pending' = pending \ {tx}
    /\ chainTable' =
          CASE tx = "create" /\ chainTable = "absent" -> "empty"
            [] tx = "extend" /\ chainTable = "empty" -> "extended"
            [] tx = "createExtend" /\ chainTable = "absent" -> "extended"
            [] OTHER -> chainTable
    /\ UNCHANGED <<tFlow, nAddr, tPc, confirmedTx, polls, snapshot, compiled,
                   extendCalls, batchesLeft, tOutcome>>

\* The network drops a pending transaction, or it fails on chain.
NetworkDrops(tx) ==
    /\ tx \in pending
    /\ pending' = pending \ {tx}
    /\ UNCHANGED <<tFlow, nAddr, tPc, chainTable, confirmedTx, polls, snapshot, compiled,
                   extendCalls, batchesLeft, tOutcome>>

\* part_000 / part_003 / OneToMany-prejito.ts: createLookupTable, then ONE
\* extendLookupTable instruction holding every address.
\* part_007: createLookupTable, sent alone by sendTransaction(connection, devBag, [createInstruction]).
BuildCreate ==
    /\ tPc = "build"
    /\ IF tFlow = "combined"
       THEN /\ extendCalls' = Append(extendCalls, nAddr)
            /\ tPc' = "send"
            /\ UNCHANGED pending
       ELSE /\ pending' = pending \cup {"create"}
            /\ tPc' = "extend"
            /\ UNCHANGED extendCalls
    /\ UNCHANGED <<tFlow, nAddr, chainTable, confirmedTx, polls, snapshot, compiled,
                   batchesLeft, tOutcome>>

\* The send of a transaction the flow does not survive: sign/serialize or
\* sendTransaction throws, the flow logs the error and stops.
FlowFails ==
    /\ tPc \in {"build", "send", "extend", "buy"}
    /\ tPc' = "done" /\ tOutcome' = "error"
    /\ UNCHANGED <<tFlow, nAddr, chainTable, pending, confirmedTx, polls, snapshot,
                   compiled, extendCalls, batchesLeft>>

\* combined: the create+extend transaction is sent (it fits a packet).
SendCreateExtend ==
    /\ tFlow = "combined" /\ tPc = "send"
    /\ FitsPacket(nAddr)
    /\ pending' = pending \cup {"createExtend"}
    /\ tPc' = "confirm"
    /\ UNCHANGED <<tFlow, nAddr, chainTable, confirmedTx, polls, snapshot, compiled,
                   extendCalls, batchesLeft, tOutcome>>

\* combined: confirmTransaction returns once the network has processed the
\* transaction; value.err is not looked at.
ConfirmReturns ==
    /\ tFlow = "combined" /\ tPc = "confirm"
    /\ "createExtend" \notin pending
    /\ confirmedTx' = confirmedTx \cup {"createExtend"}
    /\ polls' = 0
    /\ tPc' = "fetch"
    /\ UNCHANGED <<tFlow, nAddr, chainTable, pending, snapshot, compiled,
                   extendCalls, batchesLeft, tOutcome>>

\* combined: confirmTransaction throws (the blockhash expired): the flow stops.
ConfirmThrows ==
    /\ tFlow = "combined" /\ tPc = "confirm"
    /\ tPc' = "done" /\ tOutcome' = "error"
    /\ UNCHANGED <<tFlow, nAddr, chainTable, pending, confirmedTx, polls, snapshot,
                   compiled, extendCalls, batchesLeft>>

\* What getAddressLookupTable returns: the table as it is on chain, or null when
\* the table is absent or the node has not seen it yet.
LookupValues == IF chainTable = "absent" THEN {"none"} ELSE {"none", chainTable}

\* combined: one pass of fetchLookupTable's loop.
FetchPoll(value) ==
    /\ tFlow = "combined" /\ tPc = "fetch"
    /\ polls < FETCH_RETRIES
    /\ value \in LookupValues
    /\ IF value # "none"
       THEN snapshot' = value /\ tPc' = "pack" /\ UNCHANGED polls
       ELSE polls' = polls + 1 /\ UNCHANGED <<snapshot, tPc>>
    /\ UNCHANGED <<tFlow, nAddr, chainTable, pending, confirmedTx, compiled,
                   extendCalls, batchesLeft, tOutcome>>

\* combined: fetchLookupTable throws after its last pass.
FetchExhausted ==
    /\ tFlow = "combined" /\ tPc = "fetch"
    /\ polls >= FETCH_RETRIES
    /\ tPc' = "done" /\ tOutcome' = "error"
    /\ UNCHANGED <<tFlow, nAddr, chainTable, pending, confirmedTx, polls, snapshot,
                   compiled, extendCalls, batchesLeft>>

Compiled == [snap |-> snapshot, confirmed |-> confirmedTx]

\* combined: a batch is compiled with compileToV0Message([lookupTableAccount]).
CompileBatch ==
    /\ tFlow = "combined" /\ tPc = "pack"
    /\ compiled' = compiled \cup {Compiled}
    /\ batchesLeft' = batchesLeft - 1
    /\ tPc' = (IF batchesLeft = 1 THEN "done" ELSE "pack")
    /\ tOutcome' = (IF batchesLeft = 1 THEN "ok" ELSE tOutcome)
    /\ UNCHANGED <<tFlow, nAddr, chainTable, pending, confirmedTx, polls, snapshot,
                   extendCalls>>

\* separate: extendLookupTable with every address, sent by sendTransaction, which
\* throws above MAX_TRANSACTION_SIZE; the preflight simulation needs the table.
\* Nothing waits for either transaction to be confirmed.
SendExtend ==
    /\ tFlow = "separate" /\ tPc = "extend"
    /\ extendCalls' = Append(extendCalls, nAddr)
    /\ IF FitsPacket(nAddr) /\ chainTable # "absent"
       THEN /\ pending' = pending \cup {"extend"}
            /\ tPc' = "buy"
            /\ UNCHANGED tOutcome
       ELSE /\ tPc' = "done" /\ tOutcome' = "error"
            /\ UNCHANGED pending
    /\ UNCHANGED <<tFlow, nAddr, chainTable, confirmedTx, polls, snapshot, compiled,
                   batchesLeft>>

\* separate: per launcher, one lookup (fetchLookupTable throws on null) and the
\* buy transaction compiled against what it returned.
BuyWithLookup(value) ==
    /\ tFlow = "separate" /\ tPc = "buy"
    /\ value \in LookupValues
    /\ IF value = "none"
       THEN /\ tPc' = "done" /\ tOutcome' = "error"
            /\ UNCHANGED <<snapshot, compiled, batchesLeft>>
       ELSE /\ snapshot' = value
            /\ compiled' = compiled \cup {[snap |-> value, confirmed |-> confirmedTx]}
            /\ batchesLeft' = batchesLeft - 1
            /\ tPc' = (IF batchesLeft = 1 THEN "done" ELSE "buy")
            /\ tOutcome' = (IF batchesLeft = 1 THEN "ok" ELSE tOutcome)
    /\ UNCHANGED <<tFlow, nAddr, chainTable, pending, confirmedTx, polls, extendCalls>>

(***************************************************************************)
(* The packing paths: chunk, compile, sign, measure, send                  *)
(***************************************************************************)
MAX_WALLETS_PER_TRANSACTION == 6    \* part_003: transfers per transaction
JITO_BATCH_SIZE == 5                \* part_000: const batchSize = 5

\* "collect": part_003's batch loop       (size measured, oversize batch skipped)
\* "launch":  part_007's sendTransaction  (size measured, oversize raises)
\* "jito":    part_000's batch loop       (nothing measured)
\* "table":   part_000's create+extend    (nothing measured)
PackPaths == {"collect", "launch", "jito", "table"}

\* How many addresses the extension instruction registers: part_007 registers its
\* launchers plus two, part_000 its recipients.
LauncherCounts == {1, 2, 38}
RecipientCounts == {2, 30, 40}

Op(kind, id, addrs) == [kind |-> kind, id |-> id, addrs |-> addrs]

\* The operations each path packs, in the order the script builds them.
PathOps(path, n) ==
    CASE path = "collect" -> [i \in 1..n |-> Op("signedTransfer", i, 0)]
      [] path = "jito" -> [i \in 1..n |-> Op("transfer", i, 0)]
      [] path = "launch" -> <<Op("create", 0, 0), Op("extend", 0, n + 2)>>
                             \o [i \in 1..n |-> Op("buy", i, 0)]
      [] path = "table" -> <<Op("create", 0, 0), Op("extend", 0, n)>>

PathCounts(path) ==
    CASE path \in {"collect", "jito"} -> 0..MaxPackOps
      [] path = "launch" -> LauncherCounts
      [] path = "table" -> RecipientCounts

\* Operations per transaction: part_007 sends each instruction list on its own,
\* part_000 puts create and extend in one transaction.
ChunkSize(path) ==
    CASE path = "collect" -> MAX_WALLETS_PER_TRANSACTION
      [] path = "jito" -> JITO_BATCH_SIZE
      [] path = "launch" -> 1
      [] path = "table" -> 2

Chunks == batchArray(pOps, ChunkSize(pPath))

\* transaction.sign([...]): the payer, plus each wallet of a collect batch, the
\* source wallet (part_000), the launcher of a buy (part_007).
Signers(path, chunk) ==
    CASE path = "collect" -> 1 + Len(chunk)
      [] path = "launch" -> IF chunk[1].kind = "buy" THEN 2 ELSE 1
      [] path \in {"jito", "table"} -> 2

RECURSIVE OpsBytes(_)
OpsBytes(chunk) ==
    IF chunk = <<>> THEN 0
    ELSE 1 + ADDRESS_BYTES * Head(chunk).addrs + OpsBytes(Tail(chunk))

\* Accounts that are neither signers nor replaceable by a table index: the
\* programs invoked, and for create/extend the table account itself.
StaticKeys(path, chunk) ==
    IF chunk[1].kind \in {"create", "extend"} THEN 3 ELSE 1

\* message.serialize().length, from below: the signers' and static accounts'
\* keys, the blockhash (as long as an address), and per instruction one byte
\* plus the addresses its data carries.
MessageBytes(path, chunk) ==
    ADDRESS_BYTES * (Signers(path, chunk) + StaticKeys(path, chunk))
        + ADDRESS_BYTES + OpsBytes(chunk)

\* transaction.serialize().length, from below: a 64-byte signature per signer
\* in front of the message.
SerializedSize(path, chunk) == 64 * Signers(path, chunk) + MessageBytes(path, chunk)

\* part_000's create+extend message is compiled with compileToV0Message(), all
\* other paths' batches with compileToV0Message([lookupTableAccount]).
UsesTable(path, chunk) ==
    CASE path = "table" -> FALSE
      [] path = "launch" -> chunk[1].kind = "buy"
      [] OTHER -> TRUE

\* A variant whose instruction order depends on the blockhash.
RECURSIVE Reverse(_)
Reverse(q) == IF q = <<>> THEN <<>> ELSE Append(Reverse(Tail(q)), Head(q))

CompileToV0MessageByHash(chunk, hash, table) ==
    [ops |-> IF hash % 2 = 1 THEN Reverse(chunk) ELSE chunk, blockhash |-> hash, table |-> table]

\* new TransactionMessage({payerKey, instructions, recentBlockhash}).compileToV0Message(tables):
\* the bytes are fixed by the instructions in order, the blockhash and the tables.
CompileToV0Message(chunk, hash, table) ==
    [ops |-> chunk, blockhash |-> hash, table |-> table]

PackIdle ==
    /\ pPath = "none" /\ pOps = <<>> /\ libChecks = FALSE /\ chainHash = 0
    /\ pass = 0 /\ pIdx = 0 /\ passHash = 0 /\ built = <<>> /\ sentTxs = {}
    /\ rejected = {} /\ pPc = "idle" /\ hashFetches = 0 /\ signedWith = <<>>

PackInit ==
    /\ pPath \in PackPaths
    /\ \E n \in PathCounts(pPath) : pOps = PathOps(pPath, n)
    /\ libChecks \in BOOLEAN
    /\ chainHash = 0
    /\ pass = 1 /\ pIdx = 1 /\ passHash = 0
    /\ built = <<<<>>, <<>>>>
    /\ sentTxs = {} /\ rejected = {}
    /\ pPc = "start" /\ hashFetches = 0 /\ signedWith = <<>>

\* The network produces a new blockhash.
BlockhashAdvances ==
    /\ pPc \in {"start", "loop", "end"}
    /\ chainHash < MaxHash
    /\ chainHash' = chainHash + 1
    /\ UNCHANGED <<pPath, pOps, libChecks, pass, pIdx, passHash, built, sentTxs, rejected, pPc,
                   hashFetches, signedWith>>

\* getLatestBlockhash is called inside the loop body, once per batch.
FetchesPerBatch(path) == path # "jito"

\* The number of the fetch whose blockhash the batch being built carries.
Fetched == IF FetchesPerBatch(pPath) THEN hashFetches + 1 ELSE hashFetches

\* part_000 fetches the blockhash once, before its loop; the others per batch.
PassStarts ==
    /\ pPc = "start"
    /\ passHash' = chainHash
    /\ hashFetches' = (IF FetchesPerBatch(pPath) THEN 0 ELSE 1)
    /\ signedWith' = <<>>
    /\ pIdx' = 1
    /\ pPc' = "loop"
    /\ UNCHANGED <<pPath, pOps, libChecks, chainHash, pass, built, sentTxs, rejected>>

Tx(chunk) ==
    [pass |-> pass, idx |-> pIdx, ops |-> chunk,
     size |-> SerializedSize(pPath, chunk)]

\* One pass of the loop body: compile, sign, measure where the path does, send
\* where the path does.
PackBatch ==
    /\ pPc = "loop" /\ pIdx <= Len(Chunks)
    /\ LET chunk == Chunks[pIdx]
           hash == IF FetchesPerBatch(pPath) THEN chainHash ELSE passHash
           msg == CompileToV0Message(chunk, hash, UsesTable(pPath, chunk))
           size == SerializedSize(pPath, chunk)
       IN  IF libChecks /\ MessageBytes(pPath, chunk) > MAX_TRANSACTION_SIZE
           THEN \* sign() throws: the script ends
                /\ rejected' = rejected \cup {<<pass, pIdx>>}
                /\ pPc' = "end"
                /\ UNCHANGED <<built, sentTxs, pIdx, signedWith>>
           ELSE /\ built' = [built EXCEPT ![pass] = Append(@, msg)]
                /\ signedWith' = Append(signedWith, Fetched)
                /\ CASE pPath = "collect" ->
                          /\ IF size > MAX_TRANSACTION_SIZE
                             THEN /\ rejected' = rejected \cup {<<pass, pIdx>>}
                                  /\ UNCHANGED sentTxs
                             ELSE /\ sentTxs' = sentTxs \cup {Tx(chunk)}
                                  /\ UNCHANGED rejected
                          /\ pIdx' = pIdx + 1 /\ UNCHANGED pPc
                     [] pPath = "launch" ->
                          IF size > MAX_TRANSACTION_SIZE
                          THEN /\ rejected' = rejected \cup {<<pass, pIdx>>}
                               /\ pPc' = "end"
                               /\ UNCHANGED <<sentTxs, pIdx>>
                          ELSE /\ sentTxs' = sentTxs \cup {Tx(chunk)}
                               /\ pIdx' = pIdx + 1
                               /\ UNCHANGED <<rejected, pPc>>
                     [] pPath = "table" ->
                          /\ sentTxs' = sentTxs \cup {Tx(chunk)}
                          /\ pIdx' = pIdx + 1
                          /\ UNCHANGED <<rejected, pPc>>
                     [] pPath = "jito" ->
                          \* transactions.push(transaction): sent after the loop
                          /\ pIdx' = pIdx + 1
                          /\ UNCHANGED <<sentTxs, rejected, pPc>>
    /\ hashFetches' = Fetched
    /\ UNCHANGED <<pPath, pOps, libChecks, chainHash, pass, passHash>>

\* The loop is over; part_000 hands every transaction it built to jitoWithAxios.
LoopEnds ==
    /\ pPc = "loop" /\ pIdx > Len(Chunks)
    /\ sentTxs' = IF pPath = "jito"
                  THEN sentTxs \cup
                       {[pass |-> pass, idx |-> k, ops |-> built[pass][k].ops,
                         size |-> SerializedSize(pPath, built[pass][k].ops)] :
                            k \in 1..Len(built[pass])}
                  ELSE sentTxs
    /\ pPc' = "end"
    /\ UNCHANGED <<pPath, pOps, libChecks, chainHash, pass, pIdx, passHash, built, rejected,
                   hashFetches, signedWith>>

\* The script is run again over the same operations.
NextPass ==
    /\ pPc = "end"
    /\ IF pass = 1
       THEN pass' = 2 /\ pPc' = "start"
       ELSE pPc' = "done" /\ UNCHANGED pass
    /\ UNCHANGED <<pPath, pOps, libChecks, chainHash, pIdx, passHash, built, sentTxs, rejected,
                   hashFetches, signedWith>>

(***************************************************************************)
(* jitoWithAxios                                                           *)
(***************************************************************************)
RelayCeiling == 5       \* the relay takes at most 5 transactions per bundle

NoReturn == [confirmed |-> FALSE, bundleId |-> FALSE, bundleStatus |-> "none", returned |-> FALSE]

\* return { confirmed, bundleId, bundleStatus }; bundleId is modelled by whether
\* it is set, bundleStatus is "absent" when the object has no such field.
Return(confirmed, hasId, status) ==
    [confirmed |-> confirmed, bundleId |-> hasId, bundleStatus |-> status, returned |-> TRUE]

\* serializedTransactions: the tip first, then transactions[0..n-1] in order.
SerializedTransactions(n) == <<TipTx>> \o [k \in 1..n |-> k]

AxiosIdle ==
    /\ aTxs = 0 /\ aCheck = FALSE /\ aPc = "idle" /\ aPosted = <<>>
    /\ aBundleId = FALSE /\ aChain = "pending" /\ aConfirm = "none"
    /\ aStatus = "unasked" /\ aRet = NoReturn

AxiosInit ==
    /\ aTxs \in 0..MaxAxiosTxs
    /\ aCheck \in BOOLEAN
    /\ aPc = "start" /\ aPosted = <<>>
    /\ aBundleId = FALSE /\ aChain = "pending" /\ aConfirm = "none"
    /\ aStatus = "unasked" /\ aRet = NoReturn

\* getLatestBlockhash, compiling, signing or serializing throws: the catch
\* returns { confirmed: false, bundleId: null } and nothing is posted.
AxiosBuildThrows ==
    /\ aPc = "start"
    /\ aRet' = Return(FALSE, FALSE, "absent")
    /\ aPc' = "done"
    /\ UNCHANGED <<aTxs, aCheck, aPosted, aBundleId, aChain, aConfirm, aStatus>>

\* A variant without the `if (!bundleId) return`: a reply without an id goes on
\* to confirmTransaction.
AxiosPostConfirmsWithoutId(reply) ==
    /\ aPc = "start"
    /\ aPosted' = SerializedTransactions(aTxs)
    /\ reply = "id" => Len(SerializedTransactions(aTxs)) <= RelayCeiling
    /\ IF reply \in {"id", "noid"}
       THEN /\ aBundleId' = (reply = "id")
            /\ aPc' = "confirm"
            /\ UNCHANGED aRet
       ELSE /\ aRet' = Return(FALSE, FALSE, "absent")
            /\ aPc' = "done"
            /\ UNCHANGED aBundleId
    /\ UNCHANGED <<aTxs, aCheck, aChain, aConfirm, aStatus>>

\* axios.post(sendBundle): the relay replies with a bundle id ("id"), without one
\* ("noid"), or the call throws ("throws"). The relay gives no id to a bundle
\* above its ceiling.
AxiosPost(reply) ==
    /\ aPc = "start"
    /\ aPosted' = SerializedTransactions(aTxs)
    /\ reply = "id" => Len(SerializedTransactions(aTxs)) <= RelayCeiling
    /\ IF reply = "id"
       THEN /\ aBundleId' = TRUE
            /\ aPc' = "confirm"
            /\ UNCHANGED aRet
       ELSE /\ aRet' = Return(FALSE, FALSE, "absent")
            /\ aPc' = "done"
            /\ UNCHANGED aBundleId
    /\ UNCHANGED <<aTxs, aCheck, aChain, aConfirm, aStatus>>

\* The relay lands the bundle, tip included, or drops it.
RelayDecides(outcome) ==
    /\ aBundleId /\ aChain = "pending"
    /\ aChain' = outcome
    /\ UNCHANGED <<aTxs, aCheck, aPc, aPosted, aBundleId, aConfirm, aStatus, aRet>>

\* confirmTransaction of the tip signature: resolves without err once the tip is
\* on chain, resolves with err, or throws (expiry, transport).
AxiosConfirm(c) ==
    /\ aPc = "confirm"
    /\ c = "ok" => aChain = "landed"
    /\ IF c = "throws"
       THEN /\ aRet' = Return(FALSE, FALSE, "absent")
            /\ aPc' = "done"
            /\ UNCHANGED aConfirm
       ELSE /\ aConfirm' = c
            /\ IF aCheck
               THEN aPc' = "status" /\ UNCHANGED aRet
               ELSE /\ aRet' = Return(c = "ok", TRUE, "absent")
                    /\ aPc' = "done"
    /\ UNCHANGED <<aTxs, aCheck, aPosted, aBundleId, aChain, aStatus>>

\* getBundleStatuses(bundleId): the first status of the reply, or null when the
\* relay does not know the bundle yet or the query fails (it catches its errors).
AxiosStatus(st) ==
    /\ aPc = "status"
    /\ st = "landed" => aChain = "landed"
    /\ aStatus' = st
    /\ aRet' = Return(aConfirm = "ok", TRUE, st)
    /\ aPc' = "done"
    /\ UNCHANGED <<aTxs, aCheck, aPosted, aBundleId, aChain, aConfirm>>

(***************************************************************************)
(* The blocking waits                                                      *)
(*   propagation:  fetchLookupTable / fetchAndValidateALT                  *)
(*   bundleResult: onBundleResult (own 30 s timer)                         *)
(*   onSignature:  the creation loop's onSignature wait (own 30 s timer)   *)
(*   confirm:      connection.confirmTransaction inside retryAsync         *)
(***************************************************************************)
CONFIRM_RETRIES == 5    \* retryAsync(..., 5, 2000) around confirmTransaction

WaitKinds == {"propagation", "bundleResult", "onSignature", "confirm"}
PollResults == {"found", "null", "throws"}

\* A variant of the loop test that allows one poll more.
PollAgainInclusive(i, retries) == i <= retries

\* for (let i = 0; i < retries; i++): i polls have been made.
PollAgain(i, retries) == i < retries

HasOwnTimer(kind) == kind \in {"bundleResult", "onSignature"}

WaitIdle ==
    /\ wKind = "none" /\ wRetries = 0 /\ wPolls = <<>> /\ wAttempt = 0
    /\ wTimer = FALSE /\ wPc = "idle" /\ wOutcome = "none"

WaitInit ==
    /\ wKind \in WaitKinds
    /\ wRetries \in (IF wKind = "propagation" THEN 0..MaxWaitRetries
                     ELSE IF wKind = "confirm" THEN {CONFIRM_RETRIES} ELSE {0})
    /\ wPolls = <<>> /\ wAttempt = 0
    /\ wTimer = HasOwnTimer(wKind)
    /\ wPc = "waiting" /\ wOutcome = "none"

\* One pass of the propagation loop: getAddressLookupTable returns the table,
\* returns null, or throws (caught inside the loop); then the delay.
PropagationPoll(res) ==
    /\ wKind = "propagation" /\ wPc = "waiting"
    /\ PollAgain(Len(wPolls), wRetries)
    /\ wPolls' = Append(wPolls, res)
    /\ IF res = "found"
       THEN wPc' = "done" /\ wOutcome' = "value"
       ELSE UNCHANGED <<wPc, wOutcome>>
    /\ UNCHANGED <<wKind, wRetries, wAttempt, wTimer>>

\* The loop is over: throw new Error('Failed to fetch ...').
PropagationExhausted ==
    /\ wKind = "propagation" /\ wPc = "waiting"
    /\ ~PollAgain(Len(wPolls), wRetries)
    /\ wPc' = "done" /\ wOutcome' = "timeout"
    /\ UNCHANGED <<wKind, wRetries, wPolls, wAttempt, wTimer>>

\* The wait's own setTimeout fires: onBundleResult resolves, the onSignature
\* wait rejects with 'Transaction confirmation timed out.'.
WaitTimerFires ==
    /\ HasOwnTimer(wKind) /\ wTimer
    /\ wTimer' = FALSE
    /\ IF wPc = "waiting"
       THEN wPc' = "done" /\ wOutcome' = "timeout"
       ELSE UNCHANGED <<wPc, wOutcome>>
    /\ UNCHANGED <<wKind, wRetries, wPolls, wAttempt>>

\* The network notifies the wait: an acceptance on the result stream (other
\* results leave onBundleResult waiting), the signature result (which clears the
\* timer), the confirmation confirmTransaction waits for.
WaitNotified(res) ==
    /\ wKind \in {"bundleResult", "onSignature", "confirm"} /\ wPc = "waiting"
    /\ CASE wKind = "bundleResult" ->
              /\ IF res = "ok"
                 THEN wPc' = "done" /\ wOutcome' = "value"
                 ELSE UNCHANGED <<wPc, wOutcome>>
              /\ UNCHANGED wTimer
         [] wKind = "onSignature" ->
              /\ wTimer' = FALSE
              /\ wPc' = "done"
              /\ wOutcome' = (IF res = "ok" THEN "value" ELSE "error")
         [] wKind = "confirm" ->
              /\ wPc' = "done" /\ wOutcome' = "value"
              /\ UNCHANGED wTimer
    /\ UNCHANGED <<wKind, wRetries, wPolls, wAttempt>>

\* confirm: the library has been told a block height past the last valid one and
\* confirmTransaction throws; retryAsync waits and calls it again, or gives up
\* on its last attempt.
ConfirmThrowsExpired ==
    /\ wKind = "confirm" /\ wPc = "waiting"
    /\ IF wAttempt = wRetries - 1
       THEN wPc' = "done" /\ wOutcome' = "error" /\ UNCHANGED wAttempt
       ELSE wAttempt' = wAttempt + 1 /\ UNCHANGED <<wPc, wOutcome>>
    /\ UNCHANGED <<wKind, wRetries, wPolls, wTimer>>

(***************************************************************************)
(* The signers of a batch                                                  *)
(***************************************************************************)
MAX_WALLETS_PER_TX == 4         \* part_005: wallets per sell transaction
TRANSACTION_BATCH_SIZE == 4     \* index.ts: launchers per buy transaction

SignFlows == {"collect", "sell", "buy"}

\* The fee payer: a wallet of the payers file (part_003), DevBag (index.ts),
\* both outside the wallets list and named 0; sellerWallets[0] in part_005.
PayerOf(flow, wallets) ==
    IF flow = "sell" /\ wallets # <<>> THEN wallets[1] ELSE 0

Range(q) == {q[k] : k \in 1..Len(q)}

Funded(q) == SelectSeq(q, LAMBDA w : w \in sFunded)

\* A variant that cuts the signers in batches of another size than the
\* instructions.
SignerBatchesOfFour(signers) == batchArray(signers, MAX_WALLETS_PER_TX)

\* part_003: const signerBatches = batchArray(signers, MAX_WALLETS_PER_TRANSACTION).
SignerBatches(signers) == batchArray(signers, MAX_WALLETS_PER_TRANSACTION)

\* The batches the flow's loop runs over: part_003 batches the instructions of
\* the wallets a transfer was prepared for, part_005 and index.ts batch the
\* wallets.
LoopBatches ==
    CASE sFlow = "collect" ->
             batchArray([k \in 1..Len(sInstructions) |-> sInstructions[k].fromPubkey],
                        MAX_WALLETS_PER_TRANSACTION)
      [] sFlow = "sell" -> batchArray(sWallets, MAX_WALLETS_PER_TX)
      [] sFlow = "buy" -> batchArray(sWallets, TRANSACTION_BATCH_SIZE)
      [] OTHER -> <<>>

\* The wallets whose instructions go into the batch: each instruction requires
\* the signature of its wallet.
BatchOps(i) ==
    CASE sFlow = "collect" -> LoopBatches[i]
      [] sFlow = "sell" -> Funded(LoopBatches[i])
      [] sFlow = "buy" -> LoopBatches[i]

\* The list given to transaction.sign.
SignerList(i) ==
    CASE sFlow = "collect" -> <<PayerOf(sFlow, sWallets)>> \o SignerBatches(sSigners)[i]
      [] sFlow = "sell" -> <<PayerOf(sFlow, sWallets)>> \o Funded(LoopBatches[i])
      [] sFlow = "buy" -> <<PayerOf(sFlow, sWallets)>> \o LoopBatches[i]

\* The keys the compiled message requires signatures of.
RequiredSigners(i) == {PayerOf(sFlow, sWallets)} \cup Range(BatchOps(i))

LoadError == <<-1>>     \* the loader throws

\* POST /generate-wallets: a single object when the count is 1, else an array
\* of `count` entries, each with its secretKey.
WriteWallets(count) ==
    IF count = 1 THEN [shape |-> "object", n |-> 1] ELSE [shape |-> "array", n |-> count]

\* The files a flow may find: those the generator writes, an array of one
\* entry, an object without secretKey, and a JSON value that is neither.
WalletFiles ==
    {WriteWallets(c) : c \in 0..MaxWallets}
        \cup {[shape |-> "array", n |-> 1], [shape |-> "keyless", n |-> 0],
              [shape |-> "scalar", n |-> 0]}

\* part_003 loadWallets: an array is mapped entry by entry, an object with a
\* secretKey gives one keypair, anything else throws 'Invalid format'.
LoadWallets(file) ==
    CASE file.shape = "array" -> [k \in 1..file.n |-> k]
      [] file.shape = "object" -> <<1>>
      [] OTHER -> LoadError

\* index.ts loadLauncherWallets: launchersData.map(...), which exists only on
\* an array.
LoadLauncherWallets(file) ==
    IF file.shape = "array" THEN [k \in 1..file.n |-> k] ELSE LoadError

\* part_005 loadKeypairsFromFiles over DevBag.json (one object, wallet 1) and
\* the wallets file: the keypairs of both, in order.
LoadKeypairsFromFiles(file) ==
    CASE file.shape = "array" -> [k \in 1..(1 + file.n) |-> k]
      [] file.shape = "object" -> <<1, 2>>
      [] OTHER -> LoadError

Loaded(flow, file) ==
    CASE flow = "collect" -> LoadWallets(file)
      [] flow = "buy" -> LoadLauncherWallets(file)
      [] flow = "sell" -> LoadKeypairsFromFiles(file)

\* The signing identities the files of the flow hold.
Identities(flow, file) ==
    (IF flow = "sell" THEN 1 ELSE 0)
        + (IF file.shape \in {"array", "object"} THEN file.n ELSE 0)

RENT_EXEMPT_MINIMUM == 2039280  \* part_003: lamports a token account must keep
TRANSACTION_FEE == 5000         \* part_003: the fee estimate, in lamports
SEND_FIXED_AMOUNT == 0          \* part_003: null, which the test below takes as false

NoQuery == [wallet |-> 0, out |-> "none", balance |-> 0]

\* A variant that keeps the rent only and sends the fee estimate as well.
TransferAmountKeepsRentOnly(balance) == balance - RENT_EXEMPT_MINIMUM

\* part_003: the fixed amount when one is set and the balance covers it, else
\* all of the balance but the rent-exempt minimum and the fee.
TransferAmount(balance) ==
    IF SEND_FIXED_AMOUNT # 0
          /\ balance >= SEND_FIXED_AMOUNT + RENT_EXEMPT_MINIMUM + TRANSACTION_FEE
    THEN SEND_FIXED_AMOUNT
    ELSE balance - RENT_EXEMPT_MINIMUM - TRANSACTION_FEE

\* A variant of the loop that pushes the wallet to the signers before it asks
\* for the balance, so a wallet skipped or failed is a signer without a transfer.
PrepareTransferPushesSignerFirst(out, balance) ==
    /\ sPc = "prepare" /\ sPrep <= Len(sWallets)
    /\ out = "ok" => (balance > RENT_EXEMPT_MINIMUM + TRANSACTION_FEE <=> sWallets[sPrep] \in sFunded)
    /\ sQuery' = [wallet |-> sWallets[sPrep], out |-> out,
                  balance |-> IF out = "ok" THEN balance ELSE 0]
    /\ sSigners' = Append(sSigners, sWallets[sPrep])
    /\ IF out = "throws" \/ balance <= RENT_EXEMPT_MINIMUM + TRANSACTION_FEE
       THEN UNCHANGED sInstructions
       ELSE sInstructions' = Append(sInstructions,
                    [fromPubkey |-> sWallets[sPrep], lamports |-> TransferAmount(balance)])
    /\ sPrep' = sPrep + 1
    /\ sPc' = (IF sPrep < Len(sWallets) THEN "prepare"
               ELSE IF sInstructions' = <<>> THEN "done" ELSE "loop")
    /\ UNCHANGED <<sFlow, sFile, sWallets, sFunded, sIdx, sSigned, sInFlight, sSends, sSims>>

\* part_003, one pass of the preparation loop: getBalance of the wallet
\* throws (the catch logs) or returns; a balance of at most the rent plus the
\* fee is skipped, any other pushes the transfer and then the wallet. After
\* the last wallet the script returns when no transfer was prepared.
PrepareTransfer(out, balance) ==
    /\ sPc = "prepare" /\ sPrep <= Len(sWallets)
    /\ out = "ok" => (balance > RENT_EXEMPT_MINIMUM + TRANSACTION_FEE <=> sWallets[sPrep] \in sFunded)
    /\ sQuery' = [wallet |-> sWallets[sPrep], out |-> out,
                  balance |-> IF out = "ok" THEN balance ELSE 0]
    /\ IF out = "throws" \/ balance <= RENT_EXEMPT_MINIMUM + TRANSACTION_FEE
       THEN UNCHANGED <<sInstructions, sSigners>>
       ELSE /\ sInstructions' = Append(sInstructions,
                    [fromPubkey |-> sWallets[sPrep], lamports |-> TransferAmount(balance)])
            /\ sSigners' = Append(sSigners, sWallets[sPrep])
    /\ sPrep' = sPrep + 1
    /\ sPc' = (IF sPrep < Len(sWallets) THEN "prepare"
               ELSE IF sInstructions' = <<>> THEN "done" ELSE "loop")
    /\ UNCHANGED <<sFlow, sFile, sWallets, sFunded, sIdx, sSigned, sInFlight, sSends, sSims>>

SignIdle ==
    /\ sFlow = "none" /\ sWallets = <<>> /\ sFunded = {} /\ sIdx = 0
    /\ sSigned = <<>> /\ sPc = "idle" /\ sFile = [shape |-> "none", n |-> 0]
    /\ sInFlight = {} /\ sSends = <<>> /\ sSims = <<>>
    /\ sPrep = 1 /\ sInstructions = <<>> /\ sSigners = <<>> /\ sQuery = NoQuery

SignInit ==
    /\ sFlow \in SignFlows
    /\ sFile \in WalletFiles
    /\ Identities(sFlow, sFile) <= MaxWallets
    /\ sFunded \in (IF sFlow = "buy" THEN {1..Identities(sFlow, sFile)}
                    ELSE SUBSET (1..Identities(sFlow, sFile)))
    /\ sWallets = <<>>
    /\ sIdx = 1 /\ sSigned = <<>> /\ sPc = "load"
    /\ sInFlight = {} /\ sSends = <<>> /\ sSims = <<>>
    /\ sPrep = 1 /\ sInstructions = <<>> /\ sSigners = <<>> /\ sQuery = NoQuery

\* The flow loads its wallets; a loader that throws ends the script.
LoadFile ==
    /\ sPc = "load"
    /\ IF Loaded(sFlow, sFile) = LoadError
       THEN sPc' = "rejected" /\ UNCHANGED sWallets
       ELSE /\ sWallets' = Loaded(sFlow, sFile)
            /\ sPc' = (IF sFlow # "collect" THEN "loop"
                       ELSE IF Loaded(sFlow, sFile) = <<>> THEN "done" ELSE "prepare")
    /\ UNCHANGED <<sFlow, sFunded, sIdx, sSigned, sFile, sInFlight, sSends, sSims,
                   sPrep, sInstructions, sSigners, sQuery>>

\* A loop that goes on without awaiting the send.
AfterSendCalledNoAwait(flow) == "loop"

\* await connection.sendTransaction(...): the loop stands still until the send
\* has returned.
AfterSendCalled(flow) == "sending"

\* A simulateAndGetLogs whose exception reaches the caller.
SimulationEscapesOnThrow(sim) == sim = "throws"

\* simulateAndGetLogs: the whole body is inside try/catch and the catch only
\* logs, so no outcome of the simulation reaches the caller.
SimulationEscapes(sim) == FALSE

\* One pass of the batch loop up to the send: a sell batch without
\* instructions is skipped; sign() puts one signature per key of the list, and
\* throws for a key the message does not require; sendTransaction is called.
SignBatch ==
    /\ sPc = "loop" /\ sIdx <= Len(LoopBatches)
    /\ IF sFlow = "sell" /\ BatchOps(sIdx) = <<>>
       THEN sIdx' = sIdx + 1 /\ UNCHANGED <<sSigned, sPc, sInFlight>>
       ELSE IF sIdx > Len(SignerBatches(sSigners)) /\ sFlow = "collect"
       THEN sPc' = "error" /\ UNCHANGED <<sSigned, sIdx, sInFlight>>
       ELSE LET keys == Range(SignerList(sIdx))
            IN  IF keys \subseteq RequiredSigners(sIdx)
                THEN /\ sSigned' = Append(sSigned, [keys |-> keys,
                                                   required |-> RequiredSigners(sIdx)])
                     /\ sInFlight' = sInFlight \cup {sIdx}
                     /\ sIdx' = sIdx + 1
                     /\ sPc' = AfterSendCalled(sFlow)
                ELSE sPc' = "error" /\ UNCHANGED <<sSigned, sIdx, sInFlight>>
    /\ UNCHANGED <<sFlow, sFile, sWallets, sFunded, sSends, sSims,
                   sPrep, sInstructions, sSigners, sQuery>>

\* sendTransaction of batch b returns a signature or throws. The catch logs
\* the error; part_003 then calls simulateAndGetLogs for the batch.
SendReturns(b, res) ==
    /\ b \in sInFlight
    /\ sInFlight' = sInFlight \ {b}
    /\ sSends' = Append(sSends, [batch |-> b, result |-> res])
    /\ sPc' = (IF sPc # "sending" THEN sPc
               ELSE IF res = "error" /\ sFlow = "collect" THEN "simulate" ELSE "loop")
    /\ UNCHANGED <<sFlow, sFile, sWallets, sFunded, sIdx, sSigned, sSims,
                   sPrep, sInstructions, sSigners, sQuery>>

\* simulateAndGetLogs(connection, batchTransaction): the simulation succeeds,
\* reports an error or throws; the logs are printed and the loop goes on.
Simulate(sim) ==
    /\ sPc = "simulate"
    /\ sSims' = Append(sSims, [batch |-> sSends[Len(sSends)].batch, sim |-> sim])
    /\ sPc' = (IF SimulationEscapes(sim) THEN "error" ELSE "loop")
    /\ UNCHANGED <<sFlow, sFile, sWallets, sFunded, sIdx, sSigned, sInFlight, sSends,
                   sPrep, sInstructions, sSigners, sQuery>>

\* The loop over the batches is over; part_003 returns before the loop when no
\* wallet is funded.
SignLoopEnds ==
    /\ sPc = "loop" /\ sIdx > Len(LoopBatches)
    /\ sPc' = "done"
    /\ UNCHANGED <<sFlow, sFile, sWallets, sFunded, sIdx, sSigned, sInFlight, sSends, sSims,
                   sPrep, sInstructions, sSigners, sQuery>>

(***************************************************************************)
(* The wallet server: POST /generate-wallets and updateConfig              *)
(***************************************************************************)
FileNames == {"launchers", "wallets"}

Null == -1      \* the JSON null of an amount not configured

Absent == [shape |-> "absent", keys |-> <<>>]

NoConfig == [exists |-> FALSE, amounts |-> <<>>]

\* The wallets of a request: one object when the count is 1, else an array;
\* Keypair.generate() gives keys no file holds yet.
GeneratedWallets(numWallets, served) ==
    [shape |-> IF numWallets = 1 THEN "object" ELSE "array",
     keys |-> [i \in 1..numWallets |-> InitKeys + served * MaxNewWallets + i]]

\* !launcherWalletSolAmounts[launcher.publicKey] is false: the value is
\* neither null nor 0.
KeepsConfiguredAmount(amount) == amount # Null /\ amount # 0

\* updateConfig: without launchers.json nothing is done; launchers.forEach
\* exists only on an array, the TypeError of an object is caught and logged;
\* otherwise every launcher whose amount is missing or falsy gets null, the
\* keys of no launcher are deleted and config.json is written.
updateConfig(launchers, cfg) ==
    IF launchers = Absent THEN [config |-> cfg, outcome |-> "skipped"]
    ELSE IF launchers.shape # "array" THEN [config |-> cfg, outcome |-> "failed"]
    ELSE LET old == cfg.amounts
             keys == {launchers.keys[i] : i \in 1..Len(launchers.keys)}
             filled == [k \in (DOMAIN old) \cup keys |->
                          IF k \in keys /\ ~(k \in DOMAIN old /\ KeepsConfiguredAmount(old[k]))
                          THEN Null ELSE old[k]]
             kept == [k \in (DOMAIN filled) \cap keys |-> filled[k]]
         IN  [config |-> [exists |-> TRUE, amounts |-> kept], outcome |-> "written"]

ServerIdle ==
    /\ keyFiles = [f \in FileNames |-> Absent] /\ backlogs = {}
    /\ config = NoConfig /\ lastUpdate = [outcome |-> "none", before |-> NoConfig]
    /\ requests = 0

\* The server starts over the files it finds: launchers.json absent, one
\* object or an array; config.json absent or with amounts (null, 0 or a
\* positive number) for some keys.
ServerInit ==
    /\ keyFiles \in [FileNames ->
                       {Absent, [shape |-> "object", keys |-> <<1>>]}
                          \cup {[shape |-> "array", keys |-> [i \in 1..n |-> i]] : n \in 0..InitKeys}]
    /\ keyFiles["wallets"].shape # "array"
    /\ backlogs = {}
    /\ config \in {NoConfig}
                    \cup {[exists |-> TRUE, amounts |-> a] :
                            a \in UNION {[S -> {Null, 0, 1}] : S \in SUBSET (1..InitKeys)}}
    /\ lastUpdate = [outcome |-> "none", before |-> NoConfig]
    /\ requests = 0

\* updateConfig() when the server starts listening and on every socket
\* connection or refresh.
UpdateConfigCalled ==
    /\ config' = updateConfig(keyFiles["launchers"], config).config
    /\ lastUpdate' = [outcome |-> updateConfig(keyFiles["launchers"], config).outcome,
                      before |-> config]
    /\ UNCHANGED <<keyFiles, backlogs, requests>>

\* POST /generate-wallets: an existing <fileName>.json is renamed into
\* backlogs; the new wallets are written to it and, with overwriteLaunchers,
\* to launchers.json as well; updateConfig() follows.
GenerateWallets(fileName, numWallets, overwriteLaunchers) ==
    /\ requests < MaxRequests
    /\ LET wallets == GeneratedWallets(numWallets, requests)
           written == [f \in FileNames |->
                         IF f = fileName \/ (overwriteLaunchers /\ f = "launchers")
                         THEN wallets ELSE keyFiles[f]]
       IN  /\ backlogs' = (IF keyFiles[fileName] # Absent
                           THEN backlogs \cup {[name |-> fileName, request |-> requests,
                                                content |-> keyFiles[fileName]]}
                           ELSE backlogs)
           /\ keyFiles' = written
           /\ config' = updateConfig(written["launchers"], config).config
           /\ lastUpdate' = [outcome |-> updateConfig(written["launchers"], config).outcome,
                             before |-> config]
    /\ requests' = requests + 1

(***************************************************************************)
(* The specifications, one per component                                   *)
(***************************************************************************)
InitChunk == ChunkInit /\ BundleIdle /\ RetryIdle /\ TableIdle /\ PackIdle /\ AxiosIdle /\ WaitIdle /\ SignIdle /\ ServerIdle
NextChunk == CallBatchArray /\ UNCHANGED <<bundleVars, retryVars, tableVars, packVars, axiosVars, waitVars, signVars, serverVars>>
SpecChunk == InitChunk /\ [][NextChunk]_vars

InitBundle == BundleInit /\ ChunkIdle /\ RetryIdle /\ TableIdle /\ PackIdle /\ AxiosIdle /\ WaitIdle /\ SignIdle /\ ServerIdle

NextBundle ==
    \/ (BullDozerStart /\ UNCHANGED <<chunkVars, retryVars, tableVars, packVars, axiosVars, waitVars, signVars, serverVars>>)
    \/ (BuildBundleSent /\ UNCHANGED <<chunkVars, retryVars, tableVars, packVars, axiosVars, waitVars, signVars, serverVars>>)
    \/ (BuildBundleThrows /\ UNCHANGED <<chunkVars, retryVars, tableVars, packVars, axiosVars, waitVars, signVars, serverVars>>)
    \/ (BuildBundleTipError /\ UNCHANGED <<chunkVars, retryVars, tableVars, packVars, axiosVars, waitVars, signVars, serverVars>>)
    \/ (\E kind \in ResultKinds : StreamBeforeSubscribe(kind) /\ UNCHANGED <<chunkVars, retryVars, tableVars, packVars, axiosVars, waitVars, signVars, serverVars>>)
    \/ (OnBundleResultCalled /\ UNCHANGED <<chunkVars, retryVars, tableVars, packVars, axiosVars, waitVars, signVars, serverVars>>)
    \/ (\E j \in Subs, id \in Subs \cup {ForeignId}, kind \in ResultKinds :
            ResultCallback(j, id, kind) /\ UNCHANGED <<chunkVars, retryVars, tableVars, packVars, axiosVars, waitVars, signVars, serverVars>>)
    \/ (\E j \in Subs : TimerFires(j) /\ UNCHANGED <<chunkVars, retryVars, tableVars, packVars, axiosVars, waitVars, signVars, serverVars>>)
    \/ (BullDozerReturns /\ UNCHANGED <<chunkVars, retryVars, tableVars, packVars, axiosVars, waitVars, signVars, serverVars>>)
    \/ (BundleReturns /\ UNCHANGED <<chunkVars, retryVars, tableVars, packVars, axiosVars, waitVars, signVars, serverVars>>)

SpecBundle == InitBundle /\ [][NextBundle]_vars

InitRetry == RetryInit /\ ChunkIdle /\ BundleIdle /\ TableIdle /\ PackIdle /\ AxiosIdle /\ WaitIdle /\ SignIdle /\ ServerIdle

NextRetry ==
    \/ (ChainAdvance /\ UNCHANGED <<chunkVars, bundleVars, tableVars, packVars, axiosVars, waitVars, signVars, serverVars>>)
    \/ (\E res \in SendResults : RetryTransactionAttempt(res) /\ UNCHANGED <<chunkVars, bundleVars, tableVars, packVars, axiosVars, waitVars, signVars, serverVars>>)
    \/ (RetryTransactionExhausted /\ UNCHANGED <<chunkVars, bundleVars, tableVars, packVars, axiosVars, waitVars, signVars, serverVars>>)
    \/ (\E res \in SendResults : RetryAsyncAttempt(res) /\ UNCHANGED <<chunkVars, bundleVars, tableVars, packVars, axiosVars, waitVars, signVars, serverVars>>)
    \/ (RetryAsyncFallsThrough /\ UNCHANGED <<chunkVars, bundleVars, tableVars, packVars, axiosVars, waitVars, signVars, serverVars>>)
    \/ (\E res \in SendResults : CreateSendOnce(res) /\ UNCHANGED <<chunkVars, bundleVars, tableVars, packVars, axiosVars, waitVars, signVars, serverVars>>)
    \/ (\E res \in SendResults : AltLoopAttempt(res) /\ UNCHANGED <<chunkVars, bundleVars, tableVars, packVars, axiosVars, waitVars, signVars, serverVars>>)
    \/ (AltLoopExhausted /\ UNCHANGED <<chunkVars, bundleVars, tableVars, packVars, axiosVars, waitVars, signVars, serverVars>>)
    \/ (\E res \in BuyResults : BuyLoopAttempt(res) /\ UNCHANGED <<chunkVars, bundleVars, tableVars, packVars, axiosVars, waitVars, signVars, serverVars>>)
    \/ (BuyLoopExhausted /\ UNCHANGED <<chunkVars, bundleVars, tableVars, packVars, axiosVars, waitVars, signVars, serverVars>>)

SpecRetry == InitRetry /\ [][NextRetry]_vars

InitTable == TableInit /\ ChunkIdle /\ BundleIdle /\ RetryIdle /\ PackIdle /\ AxiosIdle /\ WaitIdle /\ SignIdle /\ ServerIdle

NextTable ==
    \/ (\E tx \in {"create", "extend", "createExtend"} :
            NetworkLands(tx) /\ UNCHANGED <<chunkVars, bundleVars, retryVars, packVars, axiosVars, waitVars, signVars, serverVars>>)
    \/ (\E tx \in {"create", "extend", "createExtend"} :
            NetworkDrops(tx) /\ UNCHANGED <<chunkVars, bundleVars, retryVars, packVars, axiosVars, waitVars, signVars, serverVars>>)
    \/ (BuildCreate /\ UNCHANGED <<chunkVars, bundleVars, retryVars, packVars, axiosVars, waitVars, signVars, serverVars>>)
    \/ (FlowFails /\ UNCHANGED <<chunkVars, bundleVars, retryVars, packVars, axiosVars, waitVars, signVars, serverVars>>)
    \/ (SendCreateExtend /\ UNCHANGED <<chunkVars, bundleVars, retryVars, packVars, axiosVars, waitVars, signVars, serverVars>>)
    \/ (ConfirmReturns /\ UNCHANGED <<chunkVars, bundleVars, retryVars, packVars, axiosVars, waitVars, signVars, serverVars>>)
    \/ (ConfirmThrows /\ UNCHANGED <<chunkVars, bundleVars, retryVars, packVars, axiosVars, waitVars, signVars, serverVars>>)
    \/ (\E v \in {"none", "empty", "extended"} :
            FetchPoll(v) /\ UNCHANGED <<chunkVars, bundleVars, retryVars, packVars, axiosVars, waitVars, signVars, serverVars>>)
    \/ (FetchExhausted /\ UNCHANGED <<chunkVars, bundleVars, retryVars, packVars, axiosVars, waitVars, signVars, serverVars>>)
    \/ (CompileBatch /\ UNCHANGED <<chunkVars, bundleVars, retryVars, packVars, axiosVars, waitVars, signVars, serverVars>>)
    \/ (SendExtend /\ UNCHANGED <<chunkVars, bundleVars, retryVars, packVars, axiosVars, waitVars, signVars, serverVars>>)
    \/ (\E v \in {"none", "empty", "extended"} :
            BuyWithLookup(v) /\ UNCHANGED <<chunkVars, bundleVars, retryVars, packVars, axiosVars, waitVars, signVars, serverVars>>)

SpecTable == InitTable /\ [][NextTable]_vars

InitPack == PackInit /\ ChunkIdle /\ BundleIdle /\ RetryIdle /\ TableIdle /\ AxiosIdle /\ WaitIdle /\ SignIdle /\ ServerIdle

NextPack ==
    \/ (BlockhashAdvances /\ UNCHANGED <<chunkVars, bundleVars, retryVars, tableVars, axiosVars, waitVars, signVars, serverVars>>)
    \/ (PassStarts /\ UNCHANGED <<chunkVars, bundleVars, retryVars, tableVars, axiosVars, waitVars, signVars, serverVars>>)
    \/ (PackBatch /\ UNCHANGED <<chunkVars, bundleVars, retryVars, tableVars, axiosVars, waitVars, signVars, serverVars>>)
    \/ (LoopEnds /\ UNCHANGED <<chunkVars, bundleVars, retryVars, tableVars, axiosVars, waitVars, signVars, serverVars>>)
    \/ (NextPass /\ UNCHANGED <<chunkVars, bundleVars, retryVars, tableVars, axiosVars, waitVars, signVars, serverVars>>)

SpecPack == InitPack /\ [][NextPack]_vars

InitAxios == AxiosInit /\ ChunkIdle /\ BundleIdle /\ RetryIdle /\ TableIdle /\ PackIdle /\ WaitIdle /\ SignIdle /\ ServerIdle

NextAxios ==
    \/ (AxiosBuildThrows /\ UNCHANGED <<chunkVars, bundleVars, retryVars, tableVars, packVars, waitVars, signVars, serverVars>>)
    \/ (\E reply \in {"id", "noid", "throws"} :
            AxiosPost(reply) /\ UNCHANGED <<chunkVars, bundleVars, retryVars, tableVars, packVars, waitVars, signVars, serverVars>>)
    \/ (\E o \in {"landed", "dropped"} :
            RelayDecides(o) /\ UNCHANGED <<chunkVars, bundleVars, retryVars, tableVars, packVars, waitVars, signVars, serverVars>>)
    \/ (\E c \in {"ok", "err", "throws"} :
            AxiosConfirm(c) /\ UNCHANGED <<chunkVars, bundleVars, retryVars, tableVars, packVars, waitVars, signVars, serverVars>>)
    \/ (\E st \in {"null", "landed"} :
            AxiosStatus(st) /\ UNCHANGED <<chunkVars, bundleVars, retryVars, tableVars, packVars, waitVars, signVars, serverVars>>)

SpecAxios == InitAxios /\ [][NextAxios]_vars

InitWait == WaitInit /\ ChunkIdle /\ BundleIdle /\ RetryIdle /\ TableIdle /\ PackIdle /\ AxiosIdle /\ SignIdle /\ ServerIdle

NextWait ==
    \/ (\E res \in PollResults :
            PropagationPoll(res) /\ UNCHANGED <<chunkVars, bundleVars, retryVars, tableVars, packVars, axiosVars, signVars, serverVars>>)
    \/ (PropagationExhausted /\ UNCHANGED <<chunkVars, bundleVars, retryVars, tableVars, packVars, axiosVars, signVars, serverVars>>)
    \/ (WaitTimerFires /\ UNCHANGED <<chunkVars, bundleVars, retryVars, tableVars, packVars, axiosVars, signVars, serverVars>>)
    \/ (\E res \in {"ok", "err"} :
            WaitNotified(res) /\ UNCHANGED <<chunkVars, bundleVars, retryVars, tableVars, packVars, axiosVars, signVars, serverVars>>)
    \/ (ConfirmThrowsExpired /\ UNCHANGED <<chunkVars, bundleVars, retryVars, tableVars, packVars, axiosVars, signVars, serverVars>>)

SpecWait == InitWait /\ [][NextWait]_vars

\* What runs without the network's help: a timer that was set fires, and the
\* polling loop goes on (each request returns or throws). Nothing makes the
\* network notify or report a block height.
OtherVars == <<chunkVars, bundleVars, retryVars, tableVars, packVars, axiosVars, signVars, serverVars>>

WaitFairness ==
    /\ WF_vars(WaitTimerFires /\ UNCHANGED OtherVars)
    /\ WF_vars((\E res \in PollResults : PropagationPoll(res)) /\ UNCHANGED OtherVars)
    /\ WF_vars(PropagationExhausted /\ UNCHANGED OtherVars)

SpecWaitFair == SpecWait /\ WaitFairness

InitSign == SignInit /\ ChunkIdle /\ BundleIdle /\ RetryIdle /\ TableIdle /\ PackIdle /\ AxiosIdle /\ WaitIdle /\ ServerIdle

NextSign ==
    \/ (LoadFile /\ UNCHANGED <<chunkVars, bundleVars, retryVars, tableVars, packVars, axiosVars, waitVars, serverVars>>)
    \/ (\E out \in {"ok", "throws"},
           balance \in {0, RENT_EXEMPT_MINIMUM + TRANSACTION_FEE,
                        RENT_EXEMPT_MINIMUM + TRANSACTION_FEE + 1, 1000000000} :
            PrepareTransfer(out, balance) /\ UNCHANGED <<chunkVars, bundleVars, retryVars, tableVars, packVars, axiosVars, waitVars, serverVars>>)
    \/ (SignBatch /\ UNCHANGED <<chunkVars, bundleVars, retryVars, tableVars, packVars, axiosVars, waitVars, serverVars>>)
    \/ (\E b \in 1..MaxWallets, res \in {"ok", "error"} :
            SendReturns(b, res) /\ UNCHANGED <<chunkVars, bundleVars, retryVars, tableVars, packVars, axiosVars, waitVars, serverVars>>)
    \/ (\E sim \in {"ok", "err", "throws"} :
            Simulate(sim) /\ UNCHANGED <<chunkVars, bundleVars, retryVars, tableVars, packVars, axiosVars, waitVars, serverVars>>)
    \/ (SignLoopEnds /\ UNCHANGED <<chunkVars, bundleVars, retryVars, tableVars, packVars, axiosVars, waitVars, serverVars>>)

SpecSign == InitSign /\ [][NextSign]_vars

InitServer == ServerInit /\ ChunkIdle /\ BundleIdle /\ RetryIdle /\ TableIdle /\ PackIdle /\ AxiosIdle /\ WaitIdle /\ SignIdle

NextServer ==
    \/ (UpdateConfigCalled /\ UNCHANGED <<chunkVars, bundleVars, retryVars, tableVars, packVars, axiosVars, waitVars, signVars>>)
    \/ (\E fileName \in FileNames, numWallets \in 0..MaxNewWallets, overwriteLaunchers \in BOOLEAN :
            GenerateWallets(fileName, numWallets, overwriteLaunchers) /\ UNCHANGED <<chunkVars, bundleVars, retryVars, tableVars, packVars, axiosVars, waitVars, signVars>>)

SpecServer == InitServer /\ [][NextServer]_vars

(***************************************************************************)
(* The claims                                                              *)
(***************************************************************************)

TimedOutSilently(j) ==
    /\ results[j] # "none"
    /\ resolvedBy[j] = "timer"
    /\ <<j, "accepted">> \notin received[j]
    /\ <<j, "rejected">> \notin received[j]

\* A sub-bundle whose rejection the relay delivered explicitly (and never its acceptance).
ExplicitlyRejected(j) ==
    /\ results[j] # "none"
    /\ j \in sentIds
    /\ <<j, "rejected">> \in received[j]
    /\ <<j, "accepted">> \notin received[j]

\* What bull_dozer hands back for a submission whose rejection the relay
\* delivered: the promise resolves 0 on the timer, bull_dozer returns false and
\* reports a rejection.
RejectedOutcome == [ret |-> "false", reported |-> BullDozerReports(0)]

Outcome(j) == [ret |-> results[j], reported |-> {o \in {"Accepted", "Rejected"} : <<j, o>> \in reports}]

\* C2: the outcome returned for a submission that timed out without a terminal
\* status differs from the outcome returned for an explicitly rejected submission.
C2_TimedOutDistinctFromRejected ==
    \A j \in Subs : TimedOutSilently(j) => Outcome(j) # RejectedOutcome

\* C11: every bundle sent to the relay is the tip transaction followed by the
\* transactions of the sub-bundle in their input order.
C11_TipFirstThenBatches ==
    \A j \in sentIds : relayBundles[j] = <<TipTx>> \o NewTxs(j, txCount)

C5_StaleSlotRetriedWithRefetchedSlot ==
    /\ \A k \in 2..Len(sends) :
          sends[k - 1].result = "stale" =>
              /\ sends[k].fetched > sends[k - 1].fetched
              /\ sends[k].txSlot = sends[k].slotVar
    /\ (rPc = "done" /\ Len(sends) >= 1 /\ sends[1].result = "stale" /\ maxAttempts >= 2)
          => Len(sends) >= 2
    /\ (rPc = "done" /\ Len(sends) = 2 /\ sends[1].result = "stale" /\ sends[2].result = "ok")
          => (tableCreated /\ rOutcome = "value")

RECURSIVE Flatten(_)
Flatten(ss) == IF ss = <<>> THEN <<>> ELSE Head(ss) \o Flatten(Tail(ss))

\* C6: a batch is compiled against the lookup table only after the transactions
\* creating and extending it have been confirmed and a lookup has returned the
\* table with the registered addresses present.
C6_CompiledOnlyAgainstActiveTable ==
    \A c \in compiled :
        /\ c.snap = "extended"
        /\ (("createExtend" \in c.confirmed) \/ ({"create", "extend"} \subseteq c.confirmed))

RECURSIVE SplitByCapacity(_)
SplitByCapacity(n) ==
    IF n <= 0 THEN <<>>
    ELSE IF n <= ExtendCapacity THEN <<n>>
    ELSE <<ExtendCapacity>> \o SplitByCapacity(n - ExtendCapacity)

\* C10: no extension instruction is built with more addresses than the per-call capacity
\* (a request above it fails with a capacity error instead), and a flow that ends
\* well has passed its addresses in calls within the capacity (300 as 256 and 44).
C10_ExtensionWithinCapacity ==
    /\ \A k \in 1..Len(extendCalls) : extendCalls[k] <= ExtendCapacity
    /\ tOutcome = "ok" => extendCalls = SplitByCapacity(nAddr)

\* C3: every transaction handed to the network is at most MAX_TRANSACTION_SIZE
\* bytes long and carries all the operations of its chunk; a chunk that does not
\* fit is rejected whole.
C3_NoOversizeTransactionSent ==
    \A t \in sentTxs :
        /\ t.size <= MAX_TRANSACTION_SIZE
        /\ t.ops = Chunks[t.idx]
        /\ <<t.pass, t.idx>> \notin rejected

\* The two loops that pack transfers against the fetched lookup table.
PacksWithTable == pPath \in {"collect", "jito"}

StripHash(msgs) == [k \in 1..Len(msgs) |-> [ops |-> msgs[k].ops, table |-> msgs[k].table]]

Hashes(msgs) == [k \in 1..Len(msgs) |-> msgs[k].blockhash]

C7_ChunkCountAndSizes ==
    chunkPc = "returned" =>
        LET n == Len(array)
            k == batchSize
            m == CeilDiv(n, k)
        IN  /\ Len(batches) = m
            /\ \A b \in 1..Len(batches) :
                  /\ Len(batches[b]) >= 1
                  /\ b < m => Len(batches[b]) = k
                  /\ b = m => /\ Len(batches[b]) = n - k * (m - 1)
                              /\ Len(batches[b]) \in 1..k

\* The scenario of the claim: 12 operations, batchSize 5, chunks of 5, 5 and 2.
C7_Witness ==
    /\ chunkPc = "returned"
    /\ Len(array) = 12
    /\ batchSize = 5
    /\ Len(batches) = 3
    /\ Len(batches[1]) = 5 /\ Len(batches[2]) = 5 /\ Len(batches[3]) = 2

\* C8: the chunks concatenated in order are the input list, so every operation is
\* in exactly one chunk and relative order is kept within and across chunks.
C8_OrderPreserved ==
    chunkPc = "returned" => Flatten(batches) = array

C8_Witness ==
    /\ chunkPc = "returned"
    /\ Len(batches) >= 3
    /\ Len(batches[Len(batches)]) < batchSize
    /\ Flatten(batches) = array

Count(q, x) == Cardinality({k \in 1..Len(q) : q[k] = x})

\* C12: every bundle sent to the relay holds exactly one tip transaction and at
\* most 5 transactions in total, the tip included.
C12_OneTipAtMostFive ==
    aPosted # <<>> => (Count(aPosted, TipTx) = 1 /\ Len(aPosted) <= RelayCeiling)

\* The submission of sub-bundle j reached Accepted: an acceptance event settled
\* the promise its bull_dozer call was waiting on.
SubAccepted(j) == resolvedBy[j] = "accept"

C16_SuccessOnlyOnOwnAcceptance ==
    \A j \in Subs : results[j] = "true" => <<j, "accepted">> \in received[j]

\* C17: once the result stream has reported the rejection of a submission's
\* bundle, the submission ends Rejected: bull_dozer returns false for it and
\* reports the rejection.
C17_RejectionIsTerminal ==
    \A j \in Subs :
        (results[j] # "none" /\ <<j, "rejected">> \in received[j]) =>
            (results[j] = "false" /\ <<j, "Rejected">> \in reports)


\* C14: the table-propagation wait returns at the first poll that finds the
\* table, never makes more than `retries` polls, and fails with the timeout
\* only after exactly `retries` polls none of which found it; a poll that
\* throws is one more unsuccessful poll and does not end the wait.
C14_PropagationWaitBounded ==
    wKind = "propagation" =>
        /\ Len(wPolls) <= wRetries
        /\ \A k \in 1..Len(wPolls) : wPolls[k] = "found" => k = Len(wPolls)
        /\ (wOutcome = "value") <=> (wPolls # <<>> /\ wPolls[Len(wPolls)] = "found")
        /\ (wOutcome = "timeout") <=>
               (wPc = "done" /\ Len(wPolls) = wRetries /\ \A k \in 1..Len(wPolls) : wPolls[k] # "found")
        /\ wPc = "done" <=> wOutcome \in {"value", "timeout"}

C14_Witness ==
    /\ wKind = "propagation" /\ wPc = "done" /\ wOutcome = "timeout"
    /\ wRetries >= 2 /\ wPolls[1] = "throws" /\ wPolls[wRetries] = "null"

\* C15: every blocking wait ends, whatever the network does: under the
\* fairness of timers and of the polling loop alone, each wait is eventually
\* done.
C15_EveryWaitEnds == <>(wPc = "done")

\* C15, per kind of wait: which waits end without the network's help.
C15_OwnTimerWaitsEnd == (wKind # "confirm") ~> (wPc = "done")


\* C18: a non-recoverable error is surfaced after exactly one attempt: once
\* the retried operation has failed with one, it is not called again and the
\* caller gets the error.
C18_FatalSurfacedAfterOneAttempt ==
    fatalAt # 0 => (calls = fatalAt /\ rPc = "done" /\ rOutcome = "error")

\* C18, for the helpers that test the error: retryTransaction and the creation
\* loop stop at the first non-recoverable error.
C18_ClassifyingHelpersStop ==
    (rFlow \in {"retryTransaction", "altLoop"} /\ fatalAt # 0) =>
        (calls = fatalAt /\ rPc = "done" /\ rOutcome = "error")


\* C19: each batch is signed with a blockhash fetched immediately before the
\* signing: the k-th batch signed in a pass carries the k-th fetch, which is
\* the latest one, and no batch carries the fetch of an earlier batch.
C19_FreshBlockhashPerBatch ==
    \A k \in 1..Len(signedWith) : signedWith[k] = k

\* C19, for the paths that fetch inside the loop body.
C19_PerBatchPathsFresh ==
    FetchesPerBatch(pPath) => \A k \in 1..Len(signedWith) : signedWith[k] = k


C20_WitnessPayerInBatch ==
    /\ sPc = "done" /\ sFlow = "sell" /\ Len(sSigned) = 2
    /\ 1 \in sFunded /\ sSigned[1].keys = {1, 2}


\* C21: the bundle id is the correlation key: a submission becomes Accepted
\* only through an acceptance whose bundle id is its own; the acceptance of
\* another bundle never settles it.
C21_AcceptedOnlyByOwnId ==
    \A j \in Subs :
        resolvedBy[j] = "accept" =>
            \A e \in received[j] : e[2] = "accepted" => e[1] = j

\* C23: the outcome of a submission is decided once: a settled promise keeps
\* its value and a value bull_dozer has returned is never changed, whatever
\* stream events and timer expiries follow.
C23_DecidedOnce ==
    [][\A j \in Subs :
          /\ settled[j] # Pending => settled'[j] = settled[j]
          /\ results[j] # "none" => results'[j] = results[j]]_vars

\* C23: an acceptance settled the wait, the timer fired afterwards, and the
\* stream delivered a further result after the wait was settled.
C23_Witness ==
    \E j \in Subs :
        /\ resolvedBy[j] = "accept" /\ settled[j] = 1 /\ ~timerArmed[j]
        /\ nEvents > Cardinality(received[j]) + Cardinality(missed)
        /\ results[j] = "true"

\* C24: once a submission has returned, its timer and its subscription to
\* the result stream are gone.
C24_TornDownOnceReturned ==
    \A j \in sentIds :
        results[j] # "none" => (~timerArmed[j] /\ ~subscribed[j])

\* C25: each of the ceil(n/5) sub-bundles is submitted: none is refused
\* before the send because of the transactions bundle() put in it.
C25_EverySubBundleSubmitted ==
    \A j \in Subs : <<j, "TipError">> \notin reports

\* C25, the order: a sub-bundle is built only after every earlier one has
\* returned, and a failed one does not stop the later ones.
C25_SequentialInOrder ==
    /\ \A j \in sentIds : \A k \in 1..(j - 1) : results[k] # "none"
    /\ bundlePc = "done" => \A j \in 1..txNum : results[j] # "none"

\* C30: an acceptance the relay emits for the bundle after sendBundle has
\* returned is seen by the result handler, so the submission returns true.
C30_NoAcceptanceLost ==
    \A j \in Subs :
        (results[j] # "none" /\ <<j, "accepted">> \in missed) => results[j] = "true"


\* C22: once the relay has returned a bundle id, whatever the confirmation
\* does, jitoWithAxios does not return the value it returns when no bundle
\* was sent: the result still carries the bundle id.
C22_AmbiguousKeepsBundleId ==
    (aPc = "done" /\ aBundleId) => (aRet.bundleId /\ aRet # Return(FALSE, FALSE, "absent"))

\* C26: the diagnostic simulation changes nothing: it is run only for a
\* batch whose send failed, no exception leaves it, no batch is sent twice,
\* and when the loop ends every signed batch has been sent once, the failed
\* ones still recorded as failed.
C26_SimulationChangesNothing ==
    /\ sPc # "error"
    /\ \A k \in 1..Len(sSims) :
          \E m \in 1..Len(sSends) :
              sSends[m].batch = sSims[k].batch /\ sSends[m].result = "error"
    /\ \A k, m \in 1..Len(sSends) : sSends[k].batch = sSends[m].batch => k = m
    /\ sPc = "done" => Len(sSends) = Len(sSigned)

C26_Witness ==
    /\ sPc = "done" /\ sFlow = "collect" /\ Len(sSends) = 2
    /\ sSends[1].result = "error" /\ sSends[2].result = "ok"
    /\ sSims = <<[batch |-> 1, sim |-> "throws"]>>

\* C27: at most one send is in flight; the next batch is not signed before
\* the send of the previous one has returned; sends return in batch order.
C27_OneSubmissionInFlight ==
    /\ Cardinality(sInFlight) <= 1
    /\ Len(sSigned) = Len(sSends) + Cardinality(sInFlight)
    /\ \A k, m \in 1..Len(sSends) : k < m => sSends[k].batch < sSends[m].batch

C27_Witness ==
    /\ sFlow = "buy" /\ sInFlight = {2} /\ Len(sSends) = 1 /\ sPc = "sending"


\* C29: a wallets file the generator can write is accepted by the loader of
\* every flow that reads it and gives exactly the identities it holds, in
\* order.
C29_GeneratedFileLoads ==
    (sPc \notin {"idle", "load"} /\ \E c \in 0..MaxWallets : sFile = WriteWallets(c)) =>
        /\ sPc # "rejected"
        /\ sWallets = [k \in 1..Identities(sFlow, sFile) |-> k]

\* C29, the other half: a file that is neither an array nor an object with a
\* secretKey is rejected by every loader.
C29_InvalidFileRejected ==
    (sPc \notin {"idle", "load"} /\ sFile.shape \in {"keyless", "scalar"}) => sPc = "rejected"


\* C28: for a non-empty candidate list, the tip account chosen is a member of
\* the list and every member of the list can be chosen.
C28_TipAccountAnyMember ==
    tipAccount # 0 =>
        /\ tipAccount \in 1..tipCount
        /\ TipChoices(tipCount) = 1..tipCount

\* C28, membership alone: the account chosen is always one of the list.
C28_TipAccountIsMember ==
    tipAccount # 0 => tipAccount \in 1..tipCount

\* C33: retryTransaction(fn, retries) with retries >= 1 calls fn at least once
\* and at most retries times, returns the value of the first call that succeeds
\* and makes no call after it; with retries <= 0 it fails without calling fn.
C33_CallsBoundedFirstSuccess ==
    rFlow = "retryTransaction" =>
        /\ calls = Len(sends)
        /\ calls <= maxAttempts
        /\ (rPc = "done" /\ maxAttempts >= 1) => calls >= 1
        /\ (rPc = "done" /\ maxAttempts <= 0) => (rOutcome = "error" /\ calls = 0)
        /\ \A k \in 1..Len(sends) :
              sends[k].result = "ok" => (k = Len(sends) /\ rPc = "done" /\ rOutcome = "value")
        /\ rOutcome = "value" => (sends # <<>> /\ sends[Len(sends)].result = "ok")

\* A run that succeeds on its last allowed call after stale failures.
C33_Witness ==
    /\ rFlow = "retryTransaction" /\ rPc = "done" /\ rOutcome = "value"
    /\ maxAttempts = MaxRetries /\ calls = MaxRetries
    /\ sends[1].result = "stale"

\* A run with retries = 0: it ends in the error without a call.
C33_WitnessNoRetries ==
    /\ rFlow = "retryTransaction" /\ rPc = "done" /\ rOutcome = "error"
    /\ maxAttempts = 0 /\ calls = 0

\* C34: when the relay's reply carries no bundle id, jitoWithAxios returns
\* { confirmed: false, bundleId: null } without waiting for a confirmation and
\* without querying the bundle status; an exception while building, sending or
\* confirming is turned into that same returned value, so every call that ends
\* ends with a returned value.
C34_NoIdReturnsUnconfirmed ==
    /\ aPc = "done" => aRet.returned
    /\ (aPc \notin {"idle", "start"} /\ ~aBundleId) =>
          /\ aPc = "done"
          /\ aRet = Return(FALSE, FALSE, "absent")
          /\ aConfirm = "none" /\ aStatus = "unasked"
    /\ (aPc = "done" /\ aBundleId /\ aConfirm = "none") =>
          (aRet = Return(FALSE, FALSE, "absent") /\ aStatus = "unasked")

\* The bundle was posted, the reply had no id (or the post threw), and the call
\* has returned.
C34_Witness ==
    /\ aPc = "done" /\ aPosted # <<>> /\ ~aBundleId /\ aCheck

\* confirmTransaction threw after an id was received.
C34_WitnessConfirmThrows ==
    /\ aPc = "done" /\ aBundleId /\ aConfirm = "none"

\* C31: in the collection flow, whatever the outcomes of the wallets (skipped
\* for a low balance, balance query failed, transfer prepared), the
\* instructions and the signers have the same length and signers[i] is the
\* source wallet of transferInstructions[i]; so signerBatches[b] holds exactly the
\* source wallets of instructionBatches[b], in order.
C31_SignersAlignedWithInstructions ==
    sFlow = "collect" =>
        /\ Len(sSigners) = Len(sInstructions)
        /\ \A k \in 1..Len(sInstructions) : sSigners[k] = sInstructions[k].fromPubkey
        /\ Len(SignerBatches(sSigners)) = Len(LoopBatches)
        /\ \A b \in 1..Len(LoopBatches) : SignerBatches(sSigners)[b] = LoopBatches[b]

\* The loop is over, the last query failed, a wallet was skipped for its
\* balance and transfers were prepared for others.
C31_Witness ==
    /\ sFlow = "collect" /\ sPc = "loop" /\ sQuery.out = "throws"
    /\ sInstructions # <<>>
    /\ \E k \in 1..(Len(sWallets) - 1) : sWallets[k] \notin sFunded
    /\ \E k \in 1..(Len(sWallets) - 1) :
          sWallets[k] \in sFunded /\ sWallets[k] \notin Range(sSigners)

\* Transfers fill more than one batch.
C31_WitnessTwoBatches ==
    /\ sFlow = "collect" /\ sPc = "loop" /\ Len(LoopBatches) = 2

\* C32: a wallet whose balance was read gets a transfer instruction exactly
\* when the balance is above RENT_EXEMPT_MINIMUM + TRANSACTION_FEE; the amount
\* is then the balance less both, at least 1 lamport, and leaves exactly
\* RENT_EXEMPT_MINIMUM + TRANSACTION_FEE in the wallet. No instruction carries
\* an amount of zero or less.
C32_TransferAboveRentAndFee ==
    /\ \A k \in 1..Len(sInstructions) : sInstructions[k].lamports >= 1
    /\ sQuery.out = "ok" =>
          LET prepared == /\ sInstructions # <<>>
                          /\ sInstructions[Len(sInstructions)].fromPubkey = sQuery.wallet
              lamports == sInstructions[Len(sInstructions)].lamports
          IN  /\ prepared <=> sQuery.balance > RENT_EXEMPT_MINIMUM + TRANSACTION_FEE
              /\ prepared =>
                    /\ lamports = sQuery.balance - RENT_EXEMPT_MINIMUM - TRANSACTION_FEE
                    /\ sQuery.balance - lamports = RENT_EXEMPT_MINIMUM + TRANSACTION_FEE

\* A wallet one lamport above the threshold: its transfer is of 1 lamport.
C32_Witness ==
    /\ sQuery.out = "ok"
    /\ sQuery.balance = RENT_EXEMPT_MINIMUM + TRANSACTION_FEE + 1
    /\ sInstructions # <<>>
    /\ sInstructions[Len(sInstructions)] = [fromPubkey |-> sQuery.wallet, lamports |-> 1]

\* A wallet exactly at the threshold is skipped.
C32_WitnessAtThreshold ==
    /\ sQuery.out = "ok"
    /\ sQuery.balance = RENT_EXEMPT_MINIMUM + TRANSACTION_FEE
    /\ sPrep > 1 /\ sQuery.wallet \notin Range(sSigners)

\* C35: after an updateConfig that wrote config.json, launcherWalletSolAmounts
\* has exactly the public keys of launchers.json as keys, every amount that
\* was configured for a launcher still present keeps its value, new launchers
\* map to null, and a second updateConfig over the same launchers.json
\* changes nothing.
C35_ConfigMirrorsLaunchers ==
    lastUpdate.outcome = "written" =>
        LET keys == Range(keyFiles["launchers"].keys)
            before == lastUpdate.before.amounts
        IN  /\ DOMAIN config.amounts = keys
            /\ \A k \in keys \cap DOMAIN before : config.amounts[k] = before[k]
            /\ \A k \in keys \ DOMAIN before : config.amounts[k] = Null
            /\ updateConfig(keyFiles["launchers"], config).config = config

\* C35, for amounts other than 0: the keys are those of launchers.json, such
\* amounts are kept, new launchers map to null, a second run changes nothing.
C35_NonZeroAmountsKept ==
    lastUpdate.outcome = "written" =>
        LET keys == Range(keyFiles["launchers"].keys)
            before == lastUpdate.before.amounts
        IN  /\ DOMAIN config.amounts = keys
            /\ \A k \in keys \cap DOMAIN before :
                  before[k] # 0 => config.amounts[k] = before[k]
            /\ \A k \in keys \ DOMAIN before : config.amounts[k] = Null
            /\ updateConfig(keyFiles["launchers"], config).config = config

\* An update that kept a positive amount and added a launcher.
C35_WitnessKeptAndAdded ==
    /\ lastUpdate.outcome = "written"
    /\ \E k \in DOMAIN config.amounts :
          k \in DOMAIN lastUpdate.before.amounts /\ config.amounts[k] = 1
    /\ \E k \in DOMAIN config.amounts : k \notin DOMAIN lastUpdate.before.amounts

\* An update that deleted the key of a wallet that is no launcher any more.
C35_WitnessDropped ==
    /\ lastUpdate.outcome = "written"
    /\ \E k \in DOMAIN lastUpdate.before.amounts : k \notin DOMAIN config.amounts

\* C36: whenever a /generate-wallets request replaces the contents of an
\* existing key file, the named one or launchers.json, the old contents are in
\* the backlogs directory afterwards: no previous contents are lost.
C36_OldContentsBackedUp ==
    [][\A f \in FileNames :
          (keyFiles[f] # Absent /\ keyFiles'[f] # keyFiles[f]) =>
              \E b \in backlogs' : b.content = keyFiles[f]]_vars

\* C36, for the file the request names: its old contents are moved to
\* backlogs under its name before the new ones are written.
C36_NamedFileBackedUp ==
    [][\A f \in FileNames \ {"launchers"} :
          (keyFiles[f] # Absent /\ keyFiles'[f] # keyFiles[f]) =>
              \E b \in backlogs' : b.name = f /\ b.content = keyFiles[f]]_vars

\* Both files have been replaced and two backups exist.
C36_WitnessBackedUp ==
    /\ requests = 2 /\ Cardinality(backlogs) = 2
    /\ \E b \in backlogs : b.name = "launchers" /\ b.content.shape = "array"

====
